---- MODULE Spec2Model ----
(***************************************************************************)
(* retrigo: a retrying HTTP client.  The module models Client.Do, the      *)
(* retry / scheduling loop of client.go, together with the default policy  *)
(* hooks it calls (DefaultRetryPolicy, DefaultScheduler).                  *)
(*                                                                         *)
(* One Do call is split at the points where it calls out of the loop (the  *)
(* Body Producer, the Scheduler, the transport, CheckForRetry, the sleep), *)
(* so that a cancellation of the request's context can fall between any    *)
(* two of them.                                                            *)
(***************************************************************************)
EXTENDS Integers, Sequences, FiniteSets, TLC

\* ---------------------------------------------------------------- bounds
MaxRetryMax == 4        \* Client.RetryMax ranges over -1 .. MaxRetryMax
MaxTargets  == 3        \* a Target List holds 1 .. MaxTargets urls
DurBits     == 10       \* width of a modelled time.Duration
MantBits    == 6        \* significant bits of a modelled float64
MaxAttempt  == 11       \* Backoff is applied to attempts 0 .. MaxAttempt
MaxURLLen   == 4        \* a target string holds 0 .. MaxURLLen characters
MaxStreams  == 2        \* streams obtained from one Body Producer
MaxCalls    == 2        \* successive Do calls with one Request

\* ------------------------------------------------------ program constants
FirstTarget == 0

\* DefaultRetryWaitMin and DefaultRetryWaitMax, in seconds
DefaultRetryWaitMin == 1
DefaultRetryWaitMax == 30

\* respReadLimit, in bytes
respReadLimit == 4096

\* --------------------------------------------------------------- values
\* error values (Go's error interface; Nil is the nil error)
Nil              == [kind |-> "nil"]
TransportErr     == [kind |-> "transport"]
RetryErr         == [kind |-> "retryError"]
BodyErr          == [kind |-> "body"]
ReadErr          == [kind |-> "read"]
TypeErr          == [kind |-> "cannot handle type"]
MethodErr        == [kind |-> "net/http: invalid method"]
SchemeErr        == [kind |-> "missing protocol scheme"]
ColonErr         == [kind |-> "first path segment in URL cannot contain colon"]
Canceled         == [kind |-> "context canceled"]
DeadlineExceeded == [kind |-> "context deadline exceeded"]

\* ctx.Err() of a context in state c
CtxErr(c) ==
    CASE c = "live"     -> Nil
      [] c = "canceled" -> Canceled
      [] c = "expired"  -> DeadlineExceeded

CtxStates == {"live", "canceled", "expired"}

\* a nil *http.Response, and a response with a status code
NoResp == [isNil |-> TRUE]
Response(code) == [StatusCode |-> code]

\* status codes the transport of the Do model answers with
DoStatuses == {200, 500, 501, 600}

\* what http.Client.Do can return: a response and no error, or an error
TransportOutcomes ==
    {[resp |-> Response(s), err |-> Nil] : s \in DoStatuses}
        \cup {[resp |-> NoResp, err |-> TransportErr]}

\* the candidate urls, in the order a target string lists them
AllTargets == <<"http://A", "http://B", "http://C", "http://D", "http://E">>

\* a target url.Parse rejects (missing protocol scheme)
BadTarget == "://foo"

Methods == {"GET", "POST"}

\* a nil *url.URL, and the parsed form of a target
NilURL == [isNil |-> TRUE]
parseURL(dest) == IF dest = BadTarget THEN NilURL ELSE [raw |-> dest]

\* (*url.URL).String() as fmt prints it with %s
URLString(u) == IF u = NilURL THEN "<nil>" ELSE u.raw

\* -------------------------------------------------------- request bodies
\* the byte sequences a body holds
Contents == {<<>>, <<1>>, <<1, 2>>}

\* the classes of rawBody that getBodyReaderAndContentLength tells apart;
\* "func" is a reader factory that returns a new reader on every call,
\* "func shared" one that returns the same reader on every call, "func
\* failing" one whose call returns a reader and an error, "other" a value of
\* any other type
FuncKinds   == {"func", "func shared"}
SliceKinds  == {"[]byte", "*bytes.Buffer"}
ReaderKinds == {"*bytes.Reader", "io.ReadSeeker", "io.Reader"}

\* variant: the factory is invoked a second time, for the length
UsesTwice(b) ==
    IF b.kind \in FuncKinds \cup {"func failing"} THEN 2
    ELSE IF b.kind \in {"io.Reader", "*bytes.Reader"} THEN 1
    ELSE 0

\* what one materialisation of body b, or one call of the Body Producer made
\* of it, does with the caller's object: a factory is invoked once, a reader
\* that cannot be rewound is read once (ioutil.ReadAll), anything else is
\* neither invoked nor read
Uses(b) ==
    IF b.kind \in FuncKinds \cup {"func failing"} THEN 1
    ELSE IF b.kind \in {"io.Reader", "*bytes.Reader"} THEN 1
    ELSE 0

\* a body value: its class, the bytes of the object and, for a reader, the
\* position it is read at
BodyValue(k, d, p) == [kind |-> k, data |-> d, pos |-> p]
NoBody == BodyValue("nil", <<>>, 0)

RawBodies ==
    {NoBody, BodyValue("other", <<>>, 0)}
        \cup {BodyValue(k, d, 0) : k \in SliceKinds \cup FuncKinds, d \in Contents}
        \cup UNION {{BodyValue(k, d, p) : p \in 0 .. Len(d)} :
                       k \in ReaderKinds, d \in Contents}

\* a stream (io.Reader): a reader of its own over data, or the caller's
\* reader object itself; and a nil stream
OwnStream(d)  == [isNil |-> FALSE, shared |-> FALSE, data |-> d, pos |-> 0]
SharedStream  == [isNil |-> FALSE, shared |-> TRUE, data |-> <<>>, pos |-> 0]
NoStream      == [isNil |-> TRUE, shared |-> FALSE, data |-> <<>>, pos |-> 0]

\* the bytes from position p of d to its end
From(d, p) == SubSeq(d, p + 1, Len(d))

\* the bytes stream st yields from now on; b is the Request's body
Remaining(st, b) ==
    IF st.shared THEN From(b.data, b.pos) ELSE From(st.data, st.pos)

\* n more bytes of stream st are read
ReadStream(st, b, n) ==
    IF st.shared
    THEN [stream |-> st, body |-> [b EXCEPT !.pos = @ + n]]
    ELSE [stream |-> [st EXCEPT !.pos = @ + n], body |-> b]

\* variant: every stream is the one reader object, never sought back
ReaderFuncNoRewind(b) ==
    {[err |-> Nil, stream |-> SharedStream, body |-> b]}

\* req.body(), the Body Producer that getBodyReaderAndContentLength built:
\* the outcomes of one invocation (error, stream, and the body afterwards)
ReaderFunc(b) ==
    CASE b.kind = "func" ->
            {[err |-> Nil, stream |-> OwnStream(b.data), body |-> b],
             [err |-> BodyErr, stream |-> NoStream, body |-> b]}
      [] b.kind = "func shared" ->
            {[err |-> Nil, stream |-> SharedStream, body |-> b],
             [err |-> BodyErr, stream |-> NoStream, body |-> b]}
      [] b.kind = "func failing" ->
            {[err |-> BodyErr, stream |-> OwnStream(b.data), body |-> b]}
      [] b.kind = "io.ReadSeeker" ->
            {[err |-> Nil, stream |-> SharedStream,
              body |-> [b EXCEPT !.pos = 0]],
             [err |-> BodyErr, stream |-> SharedStream, body |-> b]}
      [] OTHER ->
            {[err |-> Nil, stream |-> OwnStream(b.data), body |-> b]}

\* variant: a *bytes.Reader is not read in, it is handled as the seekable
\* stream it also is
getBodyReaderAndContentLengthSeekFirst(rawBody) ==
    CASE rawBody.kind = "nil" ->
            {[err |-> Nil, body |-> NoBody, contentLength |-> 0]}
      [] rawBody.kind \in FuncKinds \cup {"func failing"} ->
            {IF o.err # Nil
             THEN [err |-> o.err, body |-> NoBody, contentLength |-> 0]
             ELSE [err |-> Nil, body |-> rawBody,
                   contentLength |-> Len(Remaining(o.stream, o.body))] :
                o \in ReaderFunc(rawBody)}
      [] rawBody.kind \in SliceKinds ->
            {[err |-> Nil, body |-> rawBody,
              contentLength |-> Len(rawBody.data)]}
      [] rawBody.kind \in {"*bytes.Reader", "io.ReadSeeker"} ->
            {[err |-> Nil, body |-> [rawBody EXCEPT !.kind = "io.ReadSeeker"],
              contentLength |-> Len(From(rawBody.data, rawBody.pos))]}
      [] rawBody.kind = "io.Reader" ->
            {[err |-> Nil,
              body |-> BodyValue("copy", From(rawBody.data, rawBody.pos), 0),
              contentLength |-> Len(From(rawBody.data, rawBody.pos))],
             [err |-> ReadErr, body |-> NoBody, contentLength |-> 0]}
      [] OTHER ->
            {[err |-> TypeErr, body |-> NoBody, contentLength |-> 0]}

\* variant: the error of a factory's first invocation is passed over when the
\* invocation also returned a reader
getBodyReaderAndContentLengthReaderWins(rawBody) ==
    CASE rawBody.kind = "nil" ->
            {[err |-> Nil, body |-> NoBody, contentLength |-> 0]}
      [] rawBody.kind \in FuncKinds \cup {"func failing"} ->
            {IF o.err # Nil /\ o.stream.isNil
             THEN [err |-> o.err, body |-> NoBody, contentLength |-> 0]
             ELSE [err |-> Nil, body |-> rawBody,
                   contentLength |-> Len(Remaining(o.stream, o.body))] :
                o \in ReaderFunc(rawBody)}
      [] rawBody.kind \in SliceKinds ->
            {[err |-> Nil, body |-> rawBody,
              contentLength |-> Len(rawBody.data)]}
      [] rawBody.kind = "*bytes.Reader" ->
            {[err |-> Nil,
              body |-> BodyValue("copy", From(rawBody.data, rawBody.pos), 0),
              contentLength |-> Len(From(rawBody.data, rawBody.pos))]}
      [] rawBody.kind = "io.ReadSeeker" ->
            {[err |-> Nil, body |-> rawBody,
              contentLength |-> Len(From(rawBody.data, rawBody.pos))]}
      [] rawBody.kind = "io.Reader" ->
            {[err |-> Nil,
              body |-> BodyValue("copy", From(rawBody.data, rawBody.pos), 0),
              contentLength |-> Len(From(rawBody.data, rawBody.pos))],
             [err |-> ReadErr, body |-> NoBody, contentLength |-> 0]}
      [] OTHER ->
            {[err |-> TypeErr, body |-> NoBody, contentLength |-> 0]}

\* getBodyReaderAndContentLength(rawBody): the outcomes (error, the Body
\* Producer and the content length)
getBodyReaderAndContentLength(rawBody) ==
    CASE rawBody.kind = "nil" ->
            {[err |-> Nil, body |-> NoBody, contentLength |-> 0]}
      [] rawBody.kind \in FuncKinds \cup {"func failing"} ->
            {IF o.err # Nil
             THEN [err |-> o.err, body |-> NoBody, contentLength |-> 0]
             ELSE [err |-> Nil, body |-> rawBody,
                   contentLength |-> Len(Remaining(o.stream, o.body))] :
                o \in ReaderFunc(rawBody)}
      [] rawBody.kind \in SliceKinds ->
            {[err |-> Nil, body |-> rawBody,
              contentLength |-> Len(rawBody.data)]}
      [] rawBody.kind = "*bytes.Reader" ->
            {[err |-> Nil,
              body |-> BodyValue("copy", From(rawBody.data, rawBody.pos), 0),
              contentLength |-> Len(From(rawBody.data, rawBody.pos))]}
      [] rawBody.kind = "io.ReadSeeker" ->
            {[err |-> Nil, body |-> rawBody,
              contentLength |-> Len(From(rawBody.data, rawBody.pos))]}
      [] rawBody.kind = "io.Reader" ->
            {[err |-> Nil,
              body |-> BodyValue("copy", From(rawBody.data, rawBody.pos), 0),
              contentLength |-> Len(From(rawBody.data, rawBody.pos))],
             [err |-> ReadErr, body |-> NoBody, contentLength |-> 0]}
      [] OTHER ->
            {[err |-> TypeErr, body |-> NoBody, contentLength |-> 0]}

\* -------------------------------------------------------- target strings
\* the characters of a target string: a letter, a digit, the colon and the
\* space
Chars == {"a", "1", ":", " "}

TargetStrings == UNION {[1 .. n -> Chars] : n \in 0 .. MaxURLLen}

\* strings.Split(s, " "): the pieces between the spaces, empty ones included
RECURSIVE Split(_)
Split(s) ==
    IF \E k \in DOMAIN s : s[k] = " "
    THEN LET k == CHOOSE k \in DOMAIN s :
                     s[k] = " " /\ \A m \in 1 .. (k - 1) : s[m] # " "
         IN  <<SubSeq(s, 1, k - 1)>> \o Split(SubSeq(s, k + 1, Len(s)))
    ELSE <<s>>

\* url.Parse(t) for t over letters, digits and colons: the error, or nil
urlParse(t) ==
    IF t = <<>> THEN Nil
    ELSE IF t[1] = ":" THEN SchemeErr
    ELSE IF t[1] = "1" /\ \E k \in DOMAIN t : t[k] = ":" THEN ColonErr
    ELSE Nil

\* the methods handed to a constructor; http.NewRequest rejects a method
\* that is not a token
ConstructMethods == {"GET", "POST", "BAD METHOD"}
validMethod(m) == m # "BAD METHOD"

\* a constructed Request, and the nil *Request
MakeRequest(b, m, u, cl, dest) ==
    [isNil |-> FALSE, body |-> b, Method |-> m, URL |-> u,
     ContentLength |-> cl, urls |-> dest]
NoRequest == [isNil |-> TRUE]

\* the first error url.Parse reports on the elements of dest, or nil
FirstParseErr(dest) ==
    IF \E k \in DOMAIN dest : urlParse(dest[k]) # Nil
    THEN urlParse(dest[CHOOSE k \in DOMAIN dest :
                          /\ urlParse(dest[k]) # Nil
                          /\ \A m \in 1 .. (k - 1) : urlParse(dest[m]) = Nil])
    ELSE Nil

\* variant: only the first element is validated (by http.NewRequest)
NewRequestFirstOnly(m, durl, rawBody) ==
    LET dest == Split(durl)
    IN  {IF b.err # Nil THEN [req |-> NoRequest, err |-> b.err]
         ELSE IF urlParse(dest[1]) # Nil
         THEN [req |-> NoRequest, err |-> urlParse(dest[1])]
         ELSE IF ~validMethod(m) THEN [req |-> NoRequest, err |-> MethodErr]
         ELSE [req |-> MakeRequest(b.body, m, dest[1], b.contentLength, dest),
               err |-> Nil] :
            b \in getBodyReaderAndContentLength(rawBody)}

\* NewRequest(method, durl, rawBody): the outcomes (Request, error)
NewRequest(m, durl, rawBody) ==
    LET dest == Split(durl)
    IN  {IF b.err # Nil THEN [req |-> NoRequest, err |-> b.err]
         ELSE IF FirstParseErr(dest) # Nil
         THEN [req |-> NoRequest, err |-> FirstParseErr(dest)]
         ELSE IF ~validMethod(m) THEN [req |-> NoRequest, err |-> MethodErr]
         ELSE [req |-> MakeRequest(b.body, m, dest[1], b.contentLength, dest),
               err |-> Nil] :
            b \in getBodyReaderAndContentLength(rawBody)}

\* FromRequest(r, durl) for an *http.Request r with method m, URL u, body
\* rBody and content length cl: the outcomes (Request, error)
FromRequest(m, u, rBody, cl, durl) ==
    {IF b.err # Nil THEN [req |-> NoRequest, err |-> b.err]
     ELSE [req |-> MakeRequest(b.body, m, u, cl, Split(durl)), err |-> Nil] :
        b \in getBodyReaderAndContentLength(rBody)}

\* ------------------------------------------------------------ the hooks
\* variant: the transport error is looked at before the context
DefaultRetryPolicyErrFirst(ctxErr, r, err) ==
    IF err # Nil
    THEN [ok |-> TRUE, err |-> err, panic |-> FALSE]
    ELSE IF ctxErr # Nil
    THEN [ok |-> FALSE, err |-> ctxErr, panic |-> FALSE]
    ELSE IF r = NoResp
    THEN [ok |-> FALSE, err |-> Nil, panic |-> TRUE]
    ELSE IF r.StatusCode = 0 \/ (r.StatusCode >= 500 /\ r.StatusCode # 501)
    THEN [ok |-> TRUE, err |-> Nil, panic |-> FALSE]
    ELSE [ok |-> FALSE, err |-> Nil, panic |-> FALSE]

\* variant: 501 is retried like every other 5xx
DefaultRetryPolicyNo501(ctxErr, r, err) ==
    IF ctxErr # Nil
    THEN [ok |-> FALSE, err |-> ctxErr, panic |-> FALSE]
    ELSE IF err # Nil
    THEN [ok |-> TRUE, err |-> err, panic |-> FALSE]
    ELSE IF r = NoResp
    THEN [ok |-> FALSE, err |-> Nil, panic |-> TRUE]
    ELSE IF r.StatusCode = 0 \/ r.StatusCode >= 500
    THEN [ok |-> TRUE, err |-> Nil, panic |-> FALSE]
    ELSE [ok |-> FALSE, err |-> Nil, panic |-> FALSE]

\* variant: the context is looked at last
DefaultRetryPolicyCtxLast(ctxErr, r, err) ==
    IF err # Nil
    THEN [ok |-> TRUE, err |-> err, panic |-> FALSE]
    ELSE IF r = NoResp
    THEN [ok |-> FALSE, err |-> Nil, panic |-> TRUE]
    ELSE IF r.StatusCode = 0 \/ (r.StatusCode >= 500 /\ r.StatusCode # 501)
    THEN [ok |-> TRUE, err |-> Nil, panic |-> FALSE]
    ELSE [ok |-> FALSE, err |-> ctxErr, panic |-> FALSE]

\* variant: a transport error stops the retries and is handed back
DefaultRetryPolicyStopOnErr(ctxErr, r, err) ==
    IF ctxErr # Nil
    THEN [ok |-> FALSE, err |-> ctxErr, panic |-> FALSE]
    ELSE IF err # Nil
    THEN [ok |-> FALSE, err |-> err, panic |-> FALSE]
    ELSE IF r = NoResp
    THEN [ok |-> FALSE, err |-> Nil, panic |-> TRUE]
    ELSE IF r.StatusCode = 0 \/ (r.StatusCode >= 500 /\ r.StatusCode # 501)
    THEN [ok |-> TRUE, err |-> Nil, panic |-> FALSE]
    ELSE [ok |-> FALSE, err |-> Nil, panic |-> FALSE]

\* DefaultRetryPolicy(ctx, r, err); panic is the nil dereference of r
DefaultRetryPolicy(ctxErr, r, err) ==
    IF ctxErr # Nil
    THEN [ok |-> FALSE, err |-> ctxErr, panic |-> FALSE]
    ELSE IF err # Nil
    THEN [ok |-> TRUE, err |-> err, panic |-> FALSE]
    ELSE IF r = NoResp
    THEN [ok |-> FALSE, err |-> Nil, panic |-> TRUE]
    ELSE IF r.StatusCode = 0 \/ (r.StatusCode >= 500 /\ r.StatusCode # 501)
    THEN [ok |-> TRUE, err |-> Nil, panic |-> FALSE]
    ELSE [ok |-> FALSE, err |-> Nil, panic |-> FALSE]

\* what a caller-supplied CheckForRetry may answer
CustomAnswers ==
    {[ok |-> TRUE,  err |-> Nil,      panic |-> FALSE],
     [ok |-> FALSE, err |-> Nil,      panic |-> FALSE],
     [ok |-> FALSE, err |-> RetryErr, panic |-> FALSE]}

\* ------------------------------------------------ the Backoff functions
\* Durations and floats are modelled at a reduced width: time.Duration is a
\* signed integer of DurBits bits (64 in Go) and a float64 keeps MantBits
\* significant bits (53 in Go); MantBits < DurBits - 1 as 53 < 63.
RECURSIVE Pow2(_)
Pow2(n) == IF n = 0 THEN 1 ELSE 2 * Pow2(n - 1)

DurMax == Pow2(DurBits - 1) - 1
DurMin == -Pow2(DurBits - 1)

\* signed integer arithmetic wraps around
Wrap(x) == ((x - DurMin) % Pow2(DurBits)) + DurMin

RECURSIVE BitLen(_)
BitLen(n) == IF n = 0 THEN 0 ELSE 1 + BitLen(n \div 2)

\* float64(n) of an integer n >= 0: rounded to nearest, ties to even
ToFloat(n) ==
    IF BitLen(n) <= MantBits
    THEN n
    ELSE LET k    == BitLen(n) - MantBits
             q    == n \div Pow2(k)
             rem  == n % Pow2(k)
             half == Pow2(k - 1)
         IN  IF rem > half \/ (rem = half /\ q % 2 = 1)
             THEN (q + 1) * Pow2(k)
             ELSE q * Pow2(k)

\* the float f * 2^e (f >= 0 an integer) lies in the Duration range
FloatFits(f, e) == f = 0 \/ (e < DurBits /\ f * Pow2(e) <= DurMax)

\* time.Duration(m) of the float m = f * 2^e: exact when it fits, otherwise
\* implementation-dependent (amd64 gives the minimum, arm64 saturates)
DurationOf(f, e) ==
    IF f = 0 THEN {0}
    ELSE IF FloatFits(f, e) THEN {f * Pow2(e)}
    ELSE {DurMin, DurMax}

\* float64(s) == m for the float m = f * 2^e
FloatEq(s, f, e) ==
    /\ s >= 0
    /\ IF f = 0 THEN s = 0
       ELSE e <= DurBits /\ ToFloat(s) = f * Pow2(e)

\* variant: the cast is not compared with the float
DefaultBackoffNoOverflowTest(min, max, attempt) ==
    {IF s > max THEN max ELSE s : s \in DurationOf(ToFloat(min), attempt)}

\* DefaultBackoff(min, max, attempt, r): the values it can return
DefaultBackoff(min, max, attempt) ==
    LET f == ToFloat(min)
    IN  {IF ~FloatEq(s, f, attempt) \/ s > max THEN max ELSE s :
            s \in DurationOf(f, attempt)}

\* LinearJitterBackoff(min, max, attemptNum, resp): the values it can
\* return; int64(rand.Float64() * float64(max-min)) is the integer part of a
\* float below float64(max-min)
LinearJitterBackoff(min, max, attemptNum) ==
    LET n == attemptNum + 1
    IN  IF max <= min
        THEN {Wrap(min * n)}
        ELSE {Wrap(Wrap(jitter + min) * n) :
                jitter \in {t \in 0 .. (ToFloat(Wrap(max - min)) - 1) :
                               ToFloat(t) = t}}

\* variant: the cursor is not advanced
DefaultSchedulerNoAdvance(servers, j) ==
    LET jj == IF j >= Len(servers) THEN 0 ELSE j
    IN  [server |-> servers[jj + 1], j |-> jj, panic |-> FALSE]

\* variant: the cursor wraps one element early
DefaultSchedulerEarlyWrap(servers, j) ==
    LET jj == IF j >= Len(servers) - 1 THEN 0 ELSE j
    IN  [server |-> servers[jj + 1], j |-> jj + 1, panic |-> FALSE]

\* variant: the cursor is wrapped after the increment as well
DefaultSchedulerWrapAfter(servers, j) ==
    LET jj == IF j >= Len(servers) THEN 0 ELSE j
    IN  [server |-> servers[jj + 1], j |-> (jj + 1) % Len(servers),
         panic |-> FALSE]

\* DefaultScheduler(servers, j): the selected server and the next cursor;
\* panic is the index out of range of servers[j]
DefaultScheduler(servers, j) ==
    LET jj == IF j >= Len(servers) THEN 0 ELSE j
    IN  IF jj < 0 \/ jj >= Len(servers)
        THEN [server |-> "", j |-> jj, panic |-> TRUE]
        ELSE [server |-> servers[jj + 1], j |-> jj + 1, panic |-> FALSE]

\* variant: the error counts the retries, not the attempts
GivingUpRetries(method, url, retryMax) ==
    [kind |-> "giving up", method |-> method, url |-> URLString(url),
     attempts |-> retryMax]

\* the error Do synthesizes after the loop
GivingUp(method, url, retryMax) ==
    [kind |-> "giving up", method |-> method, url |-> URLString(url),
     attempts |-> retryMax + 1]

\* ---------------------------------------------------------------- state
VARIABLES
    RetryMax,       \* Client.RetryMax
    CheckForRetry,  \* Client.CheckForRetry: "default" or "custom"
    method,         \* req.Method
    urls,           \* req.urls, the Target List
    hasBody,        \* req.body # nil
    body,           \* req.body, with the caller's object it reads from
    reqBody,        \* req.Body, the stream of the current attempt
    streams,        \* the streams obtained from req.body outside a Do call
    uses,           \* how often the caller's reader factory was invoked or
                    \*   its generic reader read, construction included
    reqURL,         \* req.URL
    ctx,            \* state of req.Context()
    pc,             \* position of the Do call
    i,              \* loop counter of Do
    j,              \* Scheduler cursor of Do
    dest,           \* the target the Scheduler selected for this attempt
    r,              \* response of the current attempt
    err,            \* transport error of the current attempt
    sent,           \* the transport calls of this Do call, in order
    checks,         \* the answers of CheckForRetry in this Do call, in order
    calls,          \* the hooks this Do call invoked, in order
    ret,            \* what Do returned
    pIn,            \* DefaultRetryPolicy applied alone: its arguments
    pOut,           \*   and its result
    HTTPClient,     \* Client.HTTPClient: "nil" or the name of a client
    RetryWaitMin,   \* Client.RetryWaitMin
    RetryWaitMax,   \* Client.RetryWaitMax
    header,         \* req.Header, a set of <<name, value>> pairs
    waits,          \* the Backoff calls of this Do call and the DEBUG
                    \*   messages that announce the waits, in order
    peer,           \* a second Do call on the same Client, of another Request
    earlier         \* the attempts of each earlier Do call of this Request

polVars  == <<pIn, pOut>>
bodyVars == <<body, reqBody, streams, uses>>
callVars == <<HTTPClient, waits, peer, earlier>>
vars     == <<RetryMax, CheckForRetry, method, urls, hasBody, body, reqBody,
              streams, reqURL, ctx, pc, i, j, dest, r, err, sent, checks,
              calls, ret, pIn, pOut, HTTPClient, RetryWaitMin, RetryWaitMax,
              header, waits, peer, earlier, uses>>

NoRet  == [returned |-> FALSE]
Return(resp, e) == [returned |-> TRUE, resp |-> resp, err |-> e]
NoArgs == [applied |-> FALSE]
NoPeer == [pc |-> "none"]

\* the headers of a request: none, or the Content-Type a verb method set
NoHeader == {}
ContentType(bodyType) == {<<"Content-Type", bodyType>>}

\* NewClient: the pooled transport and the default wait bounds
ClientDefaults ==
    /\ HTTPClient = "pooled"
    /\ RetryWaitMin = DefaultRetryWaitMin
    /\ RetryWaitMax = DefaultRetryWaitMax

\* no Do call has run yet, and none runs beside this one
FirstCall ==
    /\ waits = <<>>
    /\ peer = NoPeer
    /\ earlier = <<>>

\* the state after the client is configured and a verb method (Get, Post)
\* has built its request with NewRequest: Get passes no body, Post passes an
\* io.ReadSeeker
Init ==
    /\ RetryMax \in -1 .. MaxRetryMax
    /\ CheckForRetry \in {"default", "custom"}
    /\ method \in Methods
    /\ \E n \in 1 .. MaxTargets : urls = SubSeq(AllTargets, 1, n)
    /\ body = (IF method = "POST" THEN BodyValue("io.ReadSeeker", <<1>>, 0)
                ELSE NoBody)
    /\ hasBody = (body # NoBody)
    /\ reqBody = NoStream
    /\ streams = <<>>
    /\ uses = 0
    /\ reqURL = parseURL(urls[1])
    /\ ctx = "live"
    /\ pc = "idle"
    /\ i = 0
    /\ j = 0
    /\ dest = ""
    /\ r = NoResp
    /\ err = Nil
    /\ sent = <<>>
    /\ checks = <<>>
    /\ calls = <<>>
    /\ ret = NoRet
    /\ pIn = NoArgs
    /\ pOut = NoArgs
    /\ ClientDefaults
    /\ header = (IF method = "POST" THEN ContentType("text/plain")
                 ELSE NoHeader)
    /\ FirstCall

\* ------------------------------------------------------------- Client.Do
config == <<RetryMax, CheckForRetry, method, urls, hasBody, RetryWaitMin,
            RetryWaitMax, header>>

\* variant: i < c.RetryMax
LoopCondStrict(ii, retryMax) == ii < retryMax

\* the condition of the for loop
LoopCond(ii, retryMax) == ii <= retryMax

\* variant: the attempt under way is counted as remaining
remainOffByOne(retryMax, ii) == retryMax - ii - 1

\* remain := c.RetryMax - i
remain(retryMax, ii) == retryMax - ii

\* variant: a stop without an error goes on retrying
StopsOnErrorOnly(a) == ~a.ok /\ a.err # Nil

\* CheckForRetry's answer ends the loop
Stops(a) == ~a.ok

\* variant: the transport error wins over checkErr
StopErrTransportFirst(checkErr, e) == IF e # Nil THEN e ELSE checkErr

\* the error of "return r, err" after a stop: checkErr replaces err if non-nil
StopErr(checkErr, e) == IF checkErr # Nil THEN checkErr ELSE e

\* the head of the for loop: i <= c.RetryMax, else the giving-up return
LoopHead(ii) ==
    IF LoopCond(ii, RetryMax)
    THEN /\ pc' = "rewind"
         /\ ret' = ret
    ELSE /\ pc' = "done"
         /\ ret' = Return(NoResp, GivingUp(method, reqURL, RetryMax))

\* if c.HTTPClient == nil { c.HTTPClient = cleanhttp.DefaultPooledClient() }
DefaultHTTPClient(h) == IF h = "nil" THEN "pooled" ELSE h

\* variant: the cursor is kept from the call before
DoCallKeepCursor ==
    /\ pc = "idle"
    /\ HTTPClient' = DefaultHTTPClient(HTTPClient)
    /\ i' = 0
    /\ j' = j
    /\ LoopHead(0)
    /\ UNCHANGED <<config, bodyVars, reqURL, ctx, dest, r, err, sent, checks,
                   calls>>
    /\ UNCHANGED <<polVars, waits, peer, earlier>>

\* Do is entered: the HTTPClient is defaulted, j := FirstTarget, i := 0
DoCall ==
    /\ pc = "idle"
    /\ HTTPClient' = DefaultHTTPClient(HTTPClient)
    /\ i' = 0
    /\ j' = FirstTarget
    /\ LoopHead(0)
    /\ UNCHANGED <<config, bodyVars, reqURL, ctx, dest, r, err, sent, checks,
                   calls>>
    /\ UNCHANGED <<polVars, waits, peer, earlier>>

\* variant: a failure of the Body Producer is passed over, the attempt goes on
AfterBodyIgnoreErr(o) ==
    /\ pc' = "schedule"
    /\ ret' = ret
    /\ reqBody' = o.stream

\* variant: the new stream is not installed as req.Body
AfterBodyKeepStream(o) ==
    IF o.err # Nil
    THEN /\ pc' = "done"
         /\ ret' = Return(NoResp, o.err)
         /\ reqBody' = reqBody
    ELSE /\ pc' = "schedule"
         /\ ret' = ret
         /\ reqBody' = reqBody

\* what follows body, err := req.body(): the return on an error, else the
\* stream becomes req.Body
AfterBody(o) ==
    IF o.err # Nil
    THEN /\ pc' = "done"
         /\ ret' = Return(NoResp, o.err)
         /\ reqBody' = reqBody
    ELSE /\ pc' = "schedule"
         /\ ret' = ret
         /\ reqBody' = o.stream

\* the request body is rewound: req.body() when non-nil, and
\* c.HTTPClient.CloseIdleConnections() when it fails
Rewind ==
    /\ pc = "rewind"
    /\ IF hasBody
       THEN \E o \in ReaderFunc(body) :
              /\ calls' = IF o.err # Nil
                          THEN calls \o <<"body", "close idle">>
                          ELSE Append(calls, "body")
              /\ body' = o.body
              /\ uses' = uses + Uses(body)
              /\ AfterBody(o)
       ELSE /\ pc' = "schedule" /\ ret' = ret /\ calls' = calls
            /\ body' = body /\ reqBody' = reqBody /\ uses' = uses
    /\ UNCHANGED <<config, streams, reqURL, ctx, i, j, dest, r, err, sent,
                   checks>>
    /\ UNCHANGED <<polVars, callVars>>

\* variant: a fresh request without headers is built for the selected target
ScheduleFreshRequest ==
    /\ pc = "schedule"
    /\ LET s == DefaultScheduler(urls, j)
       IN  /\ j' = s.j
           /\ dest' = s.server
           /\ reqURL' = parseURL(s.server)
    /\ header' = NoHeader
    /\ calls' = Append(calls, "scheduler")
    /\ pc' = "transport"
    /\ UNCHANGED <<RetryMax, CheckForRetry, method, urls, hasBody,
                   RetryWaitMin, RetryWaitMax, bodyVars, ctx, i, r, err, sent,
                   checks, ret>>
    /\ UNCHANGED <<polVars, callVars>>

\* variant: the cursor is a field of the Client, shared by all its Do calls
ScheduleSharedCursor ==
    /\ pc = "schedule"
    /\ LET s == DefaultScheduler(urls, peer.j)
       IN  /\ j' = s.j
           /\ peer' = [peer EXCEPT !.j = s.j]
           /\ dest' = s.server
           /\ reqURL' = parseURL(s.server)
    /\ calls' = Append(calls, "scheduler")
    /\ pc' = "transport"
    /\ UNCHANGED <<config, bodyVars, ctx, i, r, err, sent, checks, ret>>
    /\ UNCHANGED <<polVars, HTTPClient, waits, earlier>>

\* dest, j = c.Scheduler(req.urls, j); req.URL = parseURL(dest)
Schedule ==
    /\ pc = "schedule"
    /\ LET s == DefaultScheduler(urls, j)
       IN  /\ j' = s.j
           /\ dest' = s.server
           /\ reqURL' = parseURL(s.server)
    /\ calls' = Append(calls, "scheduler")
    /\ pc' = "transport"
    /\ UNCHANGED <<config, bodyVars, ctx, i, r, err, sent, checks, ret>>
    /\ UNCHANGED <<polVars, callVars>>

\* the request body after the transport call: the transport has read all of
\* it when it got a response, none of it when the call failed
BodySent(o) ==
    IF hasBody /\ o.err = Nil
    THEN ReadStream(reqBody, body, Len(Remaining(reqBody, body)))
    ELSE [stream |-> reqBody, body |-> body]

\* what c.HTTPClient.Do can return for a request with URL u: a request
\* without a URL is refused with an error before anything is sent
Outcomes(u) ==
    IF u = NilURL
    THEN {o \in TransportOutcomes : o.err # Nil}
    ELSE TransportOutcomes

\* variant: the ERROR log comes before the transport call
TransportCallsLogFirst(e) ==
    IF e # Nil THEN <<"log ERROR", "transport">> ELSE <<"transport">>

\* the transport call, and the ERROR log that follows it when it failed
TransportCalls(e) ==
    IF e # Nil THEN <<"transport", "log ERROR">> ELSE <<"transport">>

\* r, err := c.HTTPClient.Do(req.Request), and the ERROR log on failure
Transport ==
    /\ pc = "transport"
    /\ \E o \in Outcomes(reqURL) :
          /\ r' = o.resp
          /\ err' = o.err
          /\ sent' = Append(sent, [dest |-> dest, url |-> reqURL,
                                    resp |-> o.resp, err |-> o.err,
                                    body |-> IF hasBody
                                             THEN Remaining(reqBody, body)
                                             ELSE <<>>])
          /\ body' = BodySent(o).body
          /\ reqBody' = BodySent(o).stream
          /\ calls' = calls \o TransportCalls(o.err)
    /\ pc' = "check"
    /\ UNCHANGED <<config, streams, uses, reqURL, ctx, i, j, dest, checks,
                   ret>>
    /\ UNCHANGED <<polVars, callVars>>

\* the answers c.CheckForRetry(req.Context(), r, err) can give
Answers ==
    IF CheckForRetry = "default"
    THEN {DefaultRetryPolicy(CtxErr(ctx), r, err)}
    ELSE CustomAnswers

\* variant: Backoff is given the number of the attempt to come
WaitNextAttempt(ii) ==
    {[min |-> RetryWaitMin, max |-> RetryWaitMax, attempt |-> ii + 1,
      wait |-> w] : w \in DefaultBackoff(RetryWaitMin, RetryWaitMax, ii + 1)}

\* wait := c.Backoff(c.RetryWaitMin, c.RetryWaitMax, i, r): the call and the
\* waits it can return
Wait(ii) ==
    {[min |-> RetryWaitMin, max |-> RetryWaitMax, attempt |-> ii,
      wait |-> w] : w \in DefaultBackoff(RetryWaitMin, RetryWaitMax, ii)}

\* the lengths of the response bodies Do drains
BodyLengths ==
    {0, 1, respReadLimit - 1, respReadLimit, respReadLimit + 1,
     2 * respReadLimit}

\* whether reading a response body can fail: it does with "faulty", a
\* transport whose connections break while a body is read
DrainFails(h) == IF h = "faulty" THEN {FALSE, TRUE} ELSE {FALSE}

\* drainBody for a body of n bytes whose reading fails or not: the bytes
\* read, the deferred Close, and the ERROR log with a nil request on failure
drainBody(n, fails) ==
    [read   |-> IF n <= respReadLimit THEN n ELSE respReadLimit,
     closed |-> TRUE,
     calls  |-> IF fails THEN <<"drain", "log drain ERROR">>
                ELSE <<"drain">>]

\* variant: the body is drained whether the transport call failed or not
DrainedAlways(e) ==
    {drainBody(n, f).calls : n \in BodyLengths, f \in DrainFails(HTTPClient)}

\* if err == nil { c.drainBody(r.Body) }: the hook calls this makes
Drained(e) ==
    IF e = Nil
    THEN {drainBody(n, f).calls :
             n \in BodyLengths, f \in DrainFails(HTTPClient)}
    ELSE {<<>>}

\* variant: the DEBUG message announces the attempts left after the next one
RetryingAfterNext(w, left) == w @@ [left |-> left - 1]

\* the DEBUG message "retrying in <wait> (<remain> left)" that announces the
\* wait w
Retrying(w, left) == w @@ [left |-> left]

\* CheckForRetry and what follows it in the same iteration, up to the sleep
Check ==
    /\ pc = "check"
    /\ \E a \in Answers :
          /\ checks' = Append(checks, a)
          /\ IF Stops(a)
             THEN /\ pc' = "done"
                  /\ ret' = Return(r, StopErr(a.err, err))
                  /\ calls' = Append(calls, "check")
                  /\ waits' = waits
             ELSE \E d \in Drained(err) :
                  LET drained == <<"check">> \o d
                  IN  IF remain(RetryMax, i) = 0
                      THEN /\ pc' = "done"
                           /\ ret' = Return(NoResp,
                                        GivingUp(method, reqURL, RetryMax))
                           /\ calls' = calls \o drained
                           /\ waits' = waits
                      ELSE /\ pc' = "sleep"
                           /\ ret' = ret
                           /\ calls' = calls \o drained
                                         \o <<"backoff", "log DEBUG">>
                           /\ \E w \in Wait(i) :
                                 waits' = Append(waits,
                                     Retrying(w, remain(RetryMax, i)))
    /\ UNCHANGED <<config, bodyVars, reqURL, ctx, i, j, dest, r, err, sent>>
    /\ UNCHANGED <<polVars, HTTPClient, peer, earlier>>

\* time.Sleep(wait) returns and the loop goes round: i++
Sleep ==
    /\ pc = "sleep"
    /\ calls' = Append(calls, "sleep")
    /\ i' = i + 1
    /\ LoopHead(i + 1)
    /\ UNCHANGED <<config, bodyVars, reqURL, ctx, j, dest, r, err, sent,
                   checks>>
    /\ UNCHANGED <<polVars, callVars>>

\* the caller cancels the request's context, or its deadline passes
Cancel ==
    /\ ctx = "live"
    /\ pc # "done"
    /\ ctx' \in {"canceled", "expired"}
    /\ UNCHANGED <<config, bodyVars, reqURL, pc, i, j, dest, r, err, sent,
                   checks, calls, ret>>
    /\ UNCHANGED <<polVars, callVars>>

Next == DoCall \/ Rewind \/ Schedule \/ Transport \/ Check \/ Sleep \/ Cancel

Spec == Init /\ [][Next]_vars

\* the steps of a Do call under way: the transport call, the hooks and
\* time.Sleep return, so a step that can be taken is taken
DoSteps == Rewind \/ Schedule \/ Transport \/ Check \/ Sleep

\* the configurations of Init with at most two retries and two targets
TerminationInit == Init /\ RetryMax <= 2 /\ Len(urls) <= 2

TerminationSpec == TerminationInit /\ [][Next]_vars /\ WF_vars(DoSteps)

\* ------------------------------------------- DefaultRetryPolicy on its own
\* status codes handed to DefaultRetryPolicy
PolicyStatuses ==
    {0, 1, 100, 200, 204, 301, 302, 400, 404, 418, 499,
     500, 501, 502, 503, 504, 598, 599, 600, 601, 999}

PolicyResponses == {NoResp} \cup {Response(s) : s \in PolicyStatuses}

\* no Do call is under way; the policy has not been applied yet
PolicyInit ==
    /\ RetryMax = 0
    /\ CheckForRetry = "default"
    /\ method = "GET"
    /\ urls = SubSeq(AllTargets, 1, 1)
    /\ hasBody = FALSE
    /\ body = NoBody
    /\ reqBody = NoStream
    /\ streams = <<>>
    /\ uses = 0
    /\ reqURL = parseURL(urls[1])
    /\ ctx = "live"
    /\ pc = "policy"
    /\ i = 0
    /\ j = 0
    /\ dest = ""
    /\ r = NoResp
    /\ err = Nil
    /\ sent = <<>>
    /\ checks = <<>>
    /\ calls = <<>>
    /\ ret = NoRet
    /\ pIn = NoArgs
    /\ pOut = NoArgs
    /\ ClientDefaults
    /\ header = NoHeader
    /\ FirstCall

\* DefaultRetryPolicy(ctx, r, err) is called with arbitrary arguments
ApplyPolicy ==
    /\ pc = "policy"
    /\ \E c \in CtxStates, resp \in PolicyResponses, e \in {Nil, TransportErr} :
          /\ pIn' = [applied |-> TRUE, ctx |-> c, r |-> resp, err |-> e]
          /\ pOut' = DefaultRetryPolicy(CtxErr(c), resp, e)
    /\ UNCHANGED <<config, bodyVars, reqURL, ctx, pc, i, j, dest, r, err,
                   sent, checks, calls, ret, callVars>>

PolicySpec == PolicyInit /\ [][ApplyPolicy]_vars

\* ----------------------------------------- the Backoff functions on their own
\* the variables of the Do call at rest, those of the body apart, with pc = p
DoAtRest(p) ==
    /\ RetryMax = 0
    /\ CheckForRetry = "default"
    /\ method = "GET"
    /\ urls = SubSeq(AllTargets, 1, 1)
    /\ reqURL = parseURL(urls[1])
    /\ ctx = "live"
    /\ pc = p
    /\ i = 0
    /\ j = 0
    /\ dest = ""
    /\ r = NoResp
    /\ err = Nil
    /\ sent = <<>>
    /\ checks = <<>>
    /\ calls = <<>>
    /\ ret = NoRet
    /\ ClientDefaults
    /\ header = NoHeader
    /\ FirstCall

\* every variable of the Do call at rest: no body, no stream
AtRest(p) ==
    /\ DoAtRest(p)
    /\ hasBody = FALSE
    /\ body = NoBody
    /\ reqBody = NoStream
    /\ streams = <<>>
    /\ uses = 0

doVars == <<config, bodyVars, reqURL, ctx, pc, i, j, dest, r, err, sent,
            checks, calls, ret, callVars>>

\* the durations and attempt numbers Backoff is applied to
BackoffDurations ==
    {0, 1, 2, 3, 5, 60, 100, 300,
     Pow2(MantBits) - 1, Pow2(MantBits), Pow2(MantBits) + 1,
     Pow2(MantBits) + 3, DurMax - 1, DurMax}

JitterDurations == {0, 1, 2, 3, 50, 300, DurMax}

BackoffAttempts == (0 .. MaxAttempt) \cup {63, 128}

BackoffInit == AtRest("backoff") /\ pIn = NoArgs /\ pOut = NoArgs

\* a Backoff function is called for the first retry wait of a sequence, with
\* arbitrary arguments
BackoffCall ==
    /\ pc = "backoff"
    /\ pIn = NoArgs
    /\ \/ \E min \in BackoffDurations, max \in BackoffDurations,
             a \in BackoffAttempts :
            /\ pIn' = [applied |-> TRUE, fn |-> "DefaultBackoff",
                       min |-> min, max |-> max, attempt |-> a]
            /\ \E w \in DefaultBackoff(min, max, a) :
                  pOut' = [wait |-> w, hasPrev |-> FALSE, prev |-> 0]
       \/ \E min \in JitterDurations, max \in JitterDurations,
             a \in BackoffAttempts :
            /\ pIn' = [applied |-> TRUE, fn |-> "LinearJitterBackoff",
                       min |-> min, max |-> max, attempt |-> a]
            /\ \E w \in LinearJitterBackoff(min, max, a) :
                  pOut' = [wait |-> w, hasPrev |-> FALSE, prev |-> 0]
    /\ UNCHANGED doVars

\* DefaultBackoff is called for the next attempt of the same retry sequence
BackoffNext ==
    /\ pc = "backoff"
    /\ pIn.applied
    /\ pIn.fn = "DefaultBackoff"
    /\ pIn.attempt < MaxAttempt
    /\ pIn' = [pIn EXCEPT !.attempt = @ + 1]
    /\ \E w \in DefaultBackoff(pIn.min, pIn.max, pIn.attempt + 1) :
          pOut' = [wait |-> w, hasPrev |-> TRUE, prev |-> pOut.wait]
    /\ UNCHANGED doVars

BackoffSpec == BackoffInit /\ [][BackoffCall \/ BackoffNext]_vars

\* --------------------------------------------- DefaultScheduler on its own
\* the names a server list is made of, and the lists of 1 .. MaxTargets names
ServerNames == {AllTargets[k] : k \in 1 .. 3}
ServerLists == UNION {[1 .. n -> ServerNames] : n \in 1 .. MaxTargets}

\* the cursors handed to the Scheduler: inside the list, at its end, beyond it
Cursors == 0 .. (MaxTargets + 2)

SchedInit == AtRest("scheduler") /\ pIn = NoArgs /\ pOut = NoArgs

\* DefaultScheduler(servers, j) is called with an arbitrary list and cursor
ApplyScheduler ==
    /\ pc = "scheduler"
    /\ pIn = NoArgs
    /\ \E servers \in ServerLists, c \in Cursors :
          /\ pIn' = [applied |-> TRUE, servers |-> servers, j |-> c]
          /\ pOut' = DefaultScheduler(servers, c)
    /\ UNCHANGED doVars

SchedSpec == SchedInit /\ [][ApplyScheduler]_vars

\* the values FirstTarget, a package variable, can be set to
FirstTargets == -2 .. (MaxTargets + 2)

CursorInit == AtRest("first target") /\ pIn = NoArgs /\ pOut = NoArgs

\* the first Scheduler call of a Do call: c.Scheduler(req.urls, FirstTarget),
\* for a Target List of a constructor and any value of FirstTarget
ApplyFirstTarget ==
    /\ pc = "first target"
    /\ pIn = NoArgs
    /\ \E servers \in ServerLists, f \in FirstTargets :
          /\ pIn' = [applied |-> TRUE, servers |-> servers, j |-> f]
          /\ pOut' = DefaultScheduler(servers, f)
    /\ UNCHANGED doVars

CursorSpec == CursorInit /\ [][ApplyFirstTarget]_vars

\* ------------------------------------------------ the constructors alone
\* the body values handed to a constructor: NewRequest takes any value,
\* the Body of an *http.Request is nil or a reader
NewRequestBodies ==
    {NoBody, BodyValue("other", <<>>, 0), BodyValue("func", <<1>>, 0),
     BodyValue("func failing", <<1>>, 0),
     BodyValue("[]byte", <<1>>, 0), BodyValue("io.Reader", <<1>>, 0),
     BodyValue("*bytes.Buffer", <<1>>, 0),
     BodyValue("*bytes.Reader", <<1, 2>>, 1),
     BodyValue("io.ReadSeeker", <<1, 2>>, 0),
     BodyValue("io.ReadSeeker", <<1, 2>>, 1)}
FromRequestBodies ==
    {NoBody, BodyValue("io.ReadSeeker", <<1>>, 0),
     BodyValue("io.Reader", <<1>>, 0)}

ConstructInit == AtRest("construct") /\ pIn = NoArgs /\ pOut = NoArgs

\* NewRequest(method, durl, rawBody) is called with arbitrary arguments
ApplyNewRequest ==
    /\ pc = "construct"
    /\ pIn = NoArgs
    /\ \E m \in ConstructMethods, durl \in TargetStrings,
          rawBody \in NewRequestBodies :
          /\ pIn' = [applied |-> TRUE, fn |-> "NewRequest", method |-> m,
                     durl |-> durl, rawBody |-> rawBody]
          /\ pOut' \in NewRequest(m, durl, rawBody)
    /\ UNCHANGED doVars

\* FromRequest(r, durl) is called with a request http.NewRequest built, of
\* content length cl, and an arbitrary target string
ApplyFromRequest ==
    /\ pc = "construct"
    /\ pIn = NoArgs
    /\ \E m \in {n \in ConstructMethods : validMethod(n)},
          durl \in TargetStrings, rBody \in FromRequestBodies,
          cl \in {0, 1} :
          /\ pIn' = [applied |-> TRUE, fn |-> "FromRequest", method |-> m,
                     durl |-> durl, rawBody |-> rBody, cl |-> cl]
          /\ pOut' \in FromRequest(m, <<"a">>, rBody, cl, durl)
    /\ UNCHANGED doVars

ConstructSpec == ConstructInit /\ [][ApplyNewRequest \/ ApplyFromRequest]_vars

\* ------------------------------------------- Do with every class of body
\* a Request with a body of any class, as a constructor materialised it, and
\* a client with the default policy
ReplayInit ==
    /\ RetryMax \in 0 .. 2
    /\ CheckForRetry = "default"
    /\ method = "POST"
    /\ \E n \in 1 .. 2 : urls = SubSeq(AllTargets, 1, n)
    /\ \E rawBody \in RawBodies :
          \E b \in getBodyReaderAndContentLength(rawBody) :
             b.err = Nil /\ body = b.body /\ uses = Uses(rawBody)
    /\ hasBody = (body # NoBody)
    /\ reqBody = NoStream
    /\ streams = <<>>
    /\ reqURL = parseURL(urls[1])
    /\ ctx = "live"
    /\ pc = "idle"
    /\ i = 0
    /\ j = 0
    /\ dest = ""
    /\ r = NoResp
    /\ err = Nil
    /\ sent = <<>>
    /\ checks = <<>>
    /\ calls = <<>>
    /\ ret = NoRet
    /\ pIn = NoArgs
    /\ pOut = NoArgs
    /\ ClientDefaults
    /\ header = ContentType("text/plain")
    /\ FirstCall

ReplaySpec == ReplayInit /\ [][Next]_vars

\* ------------------------------------------- the Body Producer on its own
\* a body has been materialised by getBodyReaderAndContentLength(rawBody);
\* pIn keeps rawBody as it was then, pOut what the function returned
ProducerInit ==
    /\ DoAtRest("producer")
    /\ \E rawBody \in RawBodies :
          \E b \in getBodyReaderAndContentLength(rawBody) :
             /\ b.err = Nil
             /\ b.body # NoBody
             /\ body = b.body
             /\ pIn = [applied |-> TRUE, rawBody |-> rawBody]
             /\ pOut = b
             /\ uses = Uses(rawBody)
    /\ hasBody = TRUE
    /\ reqBody = NoStream
    /\ streams = <<>>

prodVars == <<config, reqBody, reqURL, ctx, pc, i, j, dest, r, err, sent,
              checks, calls, ret, pIn, pOut, callVars>>

\* req.body() is invoked and returns a stream
Produce ==
    /\ pc = "producer"
    /\ Len(streams) < MaxStreams
    /\ \E o \in ReaderFunc(body) :
          /\ o.err = Nil
          /\ streams' = Append(streams, o.stream)
          /\ body' = o.body
    /\ uses' = uses + Uses(body)
    /\ UNCHANGED prodVars

\* one more byte is read from one of the streams
ReadOne ==
    /\ pc = "producer"
    /\ \E k \in DOMAIN streams :
          /\ Remaining(streams[k], body) # <<>>
          /\ LET x == ReadStream(streams[k], body, 1)
             IN  /\ streams' = [streams EXCEPT ![k] = x.stream]
                 /\ body' = x.body
    /\ UNCHANGED <<uses, prodVars>>

\* before any stream is obtained the caller changes the object it passed: it
\* writes to a *bytes.Buffer, reads from it or resets it, or overwrites a
\* byte of a []byte
Mutate ==
    /\ pc = "producer"
    /\ streams = <<>>
    /\ \/ /\ body.kind = "*bytes.Buffer"
          /\ \/ /\ Len(body.data) < 2
                /\ \E x \in {1, 2} :
                      body' = [body EXCEPT !.data = Append(@, x)]
             \/ /\ body.data # <<>>
                /\ body' = [body EXCEPT !.data = Tail(@)]
             \/ /\ body.data # <<>>
                /\ body' = [body EXCEPT !.data = <<>>]
       \/ /\ body.kind = "[]byte"
          /\ \E k \in DOMAIN body.data, x \in {1, 2} :
                /\ body.data[k] # x
                /\ body' = [body EXCEPT !.data[k] = x]
    /\ UNCHANGED <<streams, uses, prodVars>>

ProducerSpec == ProducerInit /\ [][Produce \/ ReadOne]_vars

MutateSpec == ProducerInit /\ [][Produce \/ ReadOne \/ Mutate]_vars

\* ------------------------------------------------------ the verb methods
Verbs == {"Get", "Head", "Post", "Put", "Patch", "Delete"}

\* the verbs that take a body type and a body
BodyVerbs == {"Post", "Put", "Patch", "Delete"}

\* the method each verb hands to NewRequest
VerbMethod(v) ==
    CASE v = "Get"    -> "GET"
      [] v = "Head"   -> "HEAD"
      [] v = "Post"   -> "POST"
      [] v = "Put"    -> "PUT"
      [] v = "Patch"  -> "PATCH"
      [] v = "Delete" -> "DELETE"

\* a target string as the text it stands for
RECURSIVE Text(_)
Text(t) == IF t = <<>> THEN "" ELSE t[1] \o Text(Tail(t))

\* the target list of a constructed Request, as Do reads it
Texts(list) == [k \in DOMAIN list |-> Text(list[k])]

\* the target strings and bodies the verb methods are called with: a body is
\* an io.ReadSeeker or nil
VerbTargets == {t \in TargetStrings : Len(t) <= 3}
VerbBodies ==
    {NoBody, BodyValue("io.ReadSeeker", <<1>>, 0),
     BodyValue("*bytes.Reader", <<1, 2>>, 1)}

\* a client is configured and there is no Request yet; p is the call to come
NoRequestYet(p) ==
    /\ RetryMax \in 0 .. 1
    /\ CheckForRetry = "default"
    /\ method = ""
    /\ urls = <<>>
    /\ hasBody = FALSE
    /\ body = NoBody
    /\ reqBody = NoStream
    /\ streams = <<>>
    /\ uses = 0
    /\ reqURL = NilURL
    /\ ctx = "live"
    /\ pc = p
    /\ i = 0
    /\ j = 0
    /\ dest = ""
    /\ r = NoResp
    /\ err = Nil
    /\ sent = <<>>
    /\ checks = <<>>
    /\ calls = <<>>
    /\ ret = NoRet
    /\ pIn = NoArgs
    /\ pOut = NoArgs
    /\ ClientDefaults
    /\ header = NoHeader
    /\ FirstCall

\* no verb method has been called yet
VerbInit == NoRequestYet("verb")

\* variant: the construction error is dropped and Do is called all the same
AfterNewRequestIgnoreErr(o) ==
    /\ pc' = "idle"
    /\ ret' = ret

\* if err != nil { return nil, err }, else Do is called
AfterNewRequest(o) ==
    IF o.err # Nil
    THEN /\ pc' = "done"
         /\ ret' = Return(NoResp, o.err)
    ELSE /\ pc' = "idle"
         /\ ret' = ret

\* fn has called NewRequest(m, durl, rawBody) and got o: the construction
\* error is returned, or the Request, with the headers hdr set on it, is
\* handed to Do, whose steps follow
Constructed(fn, durl, rawBody, hdr, o) ==
    /\ pIn' = [applied |-> TRUE, fn |-> fn, durl |-> durl,
               rawBody |-> rawBody]
    /\ pOut' = o
    /\ uses' = Uses(rawBody)
    /\ AfterNewRequest(o)
    /\ IF o.err = Nil
       THEN /\ method' = o.req.Method
            /\ urls' = Texts(o.req.urls)
            /\ reqURL' = parseURL(Text(o.req.URL))
            /\ body' = o.req.body
            /\ hasBody' = (o.req.body # NoBody)
            /\ header' = hdr
       ELSE UNCHANGED <<method, urls, reqURL, body, hasBody, header>>
    /\ UNCHANGED <<RetryMax, CheckForRetry, RetryWaitMin, RetryWaitMax,
                   reqBody, streams, ctx, i, j, dest, r, err, sent, checks,
                   calls, callVars>>

\* a verb method is called: NewRequest, the Content-Type header of the verbs
\* with a body, and the return of the construction error or the call of Do
VerbCall ==
    /\ pc = "verb"
    /\ \E v \in Verbs, durl \in VerbTargets, rawBody \in VerbBodies :
          /\ v \notin BodyVerbs => rawBody = NoBody
          /\ \E o \in NewRequest(VerbMethod(v), durl, rawBody) :
                Constructed(v, durl, rawBody,
                            IF v \in BodyVerbs THEN ContentType("text/plain")
                            ELSE NoHeader, o)

VerbSpec == VerbInit /\ [][VerbCall \/ Next]_vars

\* ------------------------------ NewRequest with a factory or a reader, and Do
\* the bodies a caller hands to NewRequest before it calls Do: a reader
\* factory, one that fails at its first invocation, and a generic reader
FactoryBodies ==
    {BodyValue("func", <<1>>, 0), BodyValue("func", <<1, 2>>, 0),
     BodyValue("func failing", <<1>>, 0), BodyValue("io.Reader", <<1>>, 0),
     BodyValue("io.Reader", <<1, 2>>, 0)}

FactoryInit == NoRequestYet("new request")

\* req, err := NewRequest("POST", durl, rawBody), and c.Do(req) if err is nil
NewRequestCall ==
    /\ pc = "new request"
    /\ \E durl \in VerbTargets, rawBody \in FactoryBodies :
          \E o \in NewRequest("POST", durl, rawBody) :
             Constructed("NewRequest", durl, rawBody, NoHeader, o)

FactorySpec == FactoryInit /\ [][NewRequestCall \/ Next]_vars

\* ------------------------------------- several Do calls on one Client
\* a Client built as a struct literal, with or without an HTTPClient, a
\* Request of two or three targets, and a second Request of two other targets
\* for a Do call of another goroutine
ClientInit ==
    /\ RetryMax \in 1 .. 2
    /\ CheckForRetry = "default"
    /\ method = "GET"
    /\ \E n \in 2 .. MaxTargets : urls = SubSeq(AllTargets, 1, n)
    /\ hasBody = FALSE
    /\ body = NoBody
    /\ reqBody = NoStream
    /\ streams = <<>>
    /\ uses = 0
    /\ reqURL = parseURL(urls[1])
    /\ ctx = "live"
    /\ pc = "idle"
    /\ i = 0
    /\ j = 0
    /\ dest = ""
    /\ r = NoResp
    /\ err = Nil
    /\ sent = <<>>
    /\ checks = <<>>
    /\ calls = <<>>
    /\ ret = NoRet
    /\ pIn = NoArgs
    /\ pOut = NoArgs
    /\ HTTPClient \in {"nil", "custom"}
    /\ RetryWaitMin = DefaultRetryWaitMin
    /\ RetryWaitMax = DefaultRetryWaitMax
    /\ header = NoHeader
    /\ waits = <<>>
    /\ peer = [pc |-> "idle", urls |-> <<AllTargets[4], AllTargets[5]>>,
               i |-> 0, j |-> 0, sent |-> <<>>]
    /\ earlier = <<>>

clientVars == <<config, bodyVars, reqURL, ctx, pc, i, j, dest, r, err, sent,
                checks, calls, ret, polVars>>

\* the peer enters Do: the HTTPClient is defaulted, j := FirstTarget, i := 0
PeerDo ==
    /\ peer.pc = "idle"
    /\ HTTPClient' = DefaultHTTPClient(HTTPClient)
    /\ peer' = [peer EXCEPT !.i = 0, !.j = FirstTarget,
                            !.pc = IF LoopCond(0, RetryMax) THEN "schedule"
                                   ELSE "done"]
    /\ UNCHANGED <<clientVars, waits, earlier>>

\* the peer's dest, j = c.Scheduler(req.urls, j), and its transport call
PeerSchedule ==
    /\ peer.pc = "schedule"
    /\ LET s == DefaultScheduler(peer.urls, peer.j)
       IN  peer' = [peer EXCEPT !.j = s.j, !.sent = Append(@, s.server),
                                !.pc = "check"]
    /\ UNCHANGED <<clientVars, HTTPClient, waits, earlier>>

\* the peer's transport call returns, CheckForRetry answers, and on a retry
\* with budget remaining the peer sleeps and its loop goes round
PeerCheck ==
    /\ peer.pc = "check"
    /\ \E o \in TransportOutcomes :
          LET a == DefaultRetryPolicy(Nil, o.resp, o.err)
          IN  peer' = [peer EXCEPT
                  !.i = IF Stops(a) \/ remain(RetryMax, peer.i) = 0
                        THEN @ ELSE @ + 1,
                  !.pc = IF Stops(a) \/ remain(RetryMax, peer.i) = 0
                         THEN "done"
                         ELSE IF LoopCond(peer.i + 1, RetryMax)
                         THEN "schedule" ELSE "done"]
    /\ UNCHANGED <<clientVars, HTTPClient, waits, earlier>>

\* Do has returned and the caller calls it again with the same Request
DoAgain ==
    /\ pc = "done"
    /\ Len(earlier) < MaxCalls - 1
    /\ earlier' = Append(earlier, Len(sent))
    /\ pc' = "idle"
    /\ r' = NoResp
    /\ err' = Nil
    /\ sent' = <<>>
    /\ checks' = <<>>
    /\ calls' = <<>>
    /\ waits' = <<>>
    /\ ret' = NoRet
    /\ UNCHANGED <<config, bodyVars, reqURL, ctx, i, j, dest, polVars,
                   HTTPClient, peer>>

ClientSpec ==
    ClientInit /\ [][Next \/ PeerDo \/ PeerSchedule \/ PeerCheck \/ DoAgain]_vars

\* --------------------------------- Do with a target that does not parse
\* a Request FromRequest built around an *http.Request for the first server:
\* its target string is not validated, and one element of it does not parse
StaleInit ==
    /\ RetryMax \in 0 .. 2
    /\ CheckForRetry \in {"default", "custom"}
    /\ method = "GET"
    /\ urls \in {<<BadTarget>>, <<AllTargets[1], BadTarget>>,
                 <<BadTarget, AllTargets[1]>>}
    /\ hasBody = FALSE
    /\ body = NoBody
    /\ reqBody = NoStream
    /\ streams = <<>>
    /\ uses = 0
    /\ reqURL = parseURL(AllTargets[1])
    /\ ctx = "live"
    /\ pc = "idle"
    /\ i = 0
    /\ j = 0
    /\ dest = ""
    /\ r = NoResp
    /\ err = Nil
    /\ sent = <<>>
    /\ checks = <<>>
    /\ calls = <<>>
    /\ ret = NoRet
    /\ pIn = NoArgs
    /\ pOut = NoArgs
    /\ ClientDefaults
    /\ header = NoHeader
    /\ FirstCall

StaleSpec == StaleInit /\ [][Next]_vars

\* ------------------------------- Do with response bodies that fail to read
\* a client whose transport breaks connections while a body is read
DrainInit ==
    /\ RetryMax \in 0 .. 2
    /\ CheckForRetry \in {"default", "custom"}
    /\ method = "GET"
    /\ urls = SubSeq(AllTargets, 1, 2)
    /\ hasBody = FALSE
    /\ body = NoBody
    /\ reqBody = NoStream
    /\ streams = <<>>
    /\ uses = 0
    /\ reqURL = parseURL(urls[1])
    /\ ctx = "live"
    /\ pc = "idle"
    /\ i = 0
    /\ j = 0
    /\ dest = ""
    /\ r = NoResp
    /\ err = Nil
    /\ sent = <<>>
    /\ checks = <<>>
    /\ calls = <<>>
    /\ ret = NoRet
    /\ pIn = NoArgs
    /\ pOut = NoArgs
    /\ HTTPClient = "faulty"
    /\ RetryWaitMin = DefaultRetryWaitMin
    /\ RetryWaitMax = DefaultRetryWaitMax
    /\ header = NoHeader
    /\ FirstCall

DrainSpec == DrainInit /\ [][Next]_vars

\* ================================================================ claims
Min(a, b) == IF a <= b THEN a ELSE b

\* how often a hook occurs in a sequence of hook calls
CountIn(seq, op) == Cardinality({k \in DOMAIN seq : seq[k] = op})

\* the Do call ended because the Body Producer failed
BodyFailed == pc = "done" /\ ret.err = BodyErr

\* a transport error, or a status in 500..599 other than 501
RetryableOutcome(o) ==
    \/ o.err = TransportErr
    \/ /\ o.err = Nil
       /\ o.resp.StatusCode \in 500 .. 599
       /\ o.resp.StatusCode # 501

\* the 1-based index of the first attempt on which CheckForRetry answered
\* stop; beyond every attempt if it never did
FirstStop ==
    IF \E k \in DOMAIN checks : ~checks[k].ok
    THEN CHOOSE k \in DOMAIN checks :
            ~checks[k].ok /\ \A m \in 1 .. (k - 1) : checks[m].ok
    ELSE RetryMax + 2

\* C1: in a Do call with RetryMax = M >= 0 whose Body Producer does not
\* fail, the transport is called min(M+1, k) times, k the first attempt on
\* which CheckForRetry answers stop; never more than M+1 times; and M+1
\* times when, under the default policy and a live context, every attempt
\* ends in a transport error or a 5xx other than 501.
C1_AttemptCount ==
    RetryMax >= 0 =>
        /\ Len(sent) <= RetryMax + 1
        /\ (pc = "done" /\ ~BodyFailed)
              => Len(sent) = Min(RetryMax + 1, FirstStop)
        /\ (/\ pc = "done" /\ ~BodyFailed
            /\ CheckForRetry = "default" /\ ctx = "live"
            /\ \A k \in DOMAIN sent : RetryableOutcome(sent[k]))
              => Len(sent) = RetryMax + 1

C1_Witness ==
    /\ pc = "done" /\ RetryMax = 2 /\ CheckForRetry = "default"
    /\ Len(sent) = 3
    /\ sent[1].err = TransportErr
    /\ sent[2].resp = Response(500)
    /\ sent[3].resp = Response(500)

\* C2: when each of the RetryMax+1 attempts ends in a retry decision, Do
\* returns a nil response and the "giving up" error, which names the
\* request's method, the URL of the last attempt and the count RetryMax+1.
C2_GivingUpError ==
    (/\ pc = "done" /\ RetryMax >= 0
     /\ Len(checks) = RetryMax + 1
     /\ \A k \in DOMAIN checks : checks[k].ok)
        => /\ ret.returned
           /\ ret.resp = NoResp
           /\ ret.err.kind = "giving up"
           /\ ret.err.method = method
           /\ ret.err.url = URLString(sent[Len(sent)].url)
           /\ ret.err.attempts = RetryMax + 1

C2_Witness ==
    /\ pc = "done" /\ RetryMax = 2 /\ CheckForRetry = "default"
    /\ Len(sent) = 3
    /\ \A k \in DOMAIN sent : sent[k].resp = Response(500)
    /\ ret.err.kind = "giving up"
    /\ ret.err.url = "http://A"

\* the transport outcomes of the call agree with: a retryable outcome on
\* attempts 1..n and a 200 response on attempt n+1
FailsThenOK(n) ==
    /\ \A k \in 1 .. Min(n, Len(sent)) : RetryableOutcome(sent[k])
    /\ Len(sent) >= n + 1
          => sent[n + 1].err = Nil /\ sent[n + 1].resp = Response(200)

\* C3: with the default policy (context live, Body Producer not failing), if
\* the transport yields a retryable outcome on the first N attempts and 200
\* on attempt N+1, and RetryMax >= N, Do returns that 200 response and a nil
\* error after exactly N+1 transport calls.
C3_RetryThenSuccess ==
    \A n \in 0 .. RetryMax :
        (/\ pc = "done" /\ ~BodyFailed
         /\ CheckForRetry = "default" /\ ctx = "live"
         /\ FailsThenOK(n))
            => /\ Len(sent) = n + 1
               /\ ret = Return(Response(200), Nil)

C3_Witness ==
    /\ pc = "done" /\ RetryMax = 3 /\ CheckForRetry = "default"
    /\ Len(sent) = 3
    /\ sent[1].err = TransportErr
    /\ sent[2].resp = Response(500)
    /\ sent[3].resp = Response(200)
    /\ ret = Return(Response(200), Nil)

\* C4: a stop answer of CheckForRetry is the last thing the Do call does: it
\* is the last answer, Do has returned that attempt's response, and the
\* check is the last hook called (no Scheduler, transport, Backoff, sleep or
\* CheckForRetry after it), whatever budget remains; so a policy that only
\* answers stop is called exactly once.
C4_StopReturnsAtOnce ==
    \A k \in DOMAIN checks :
        ~checks[k].ok
            => /\ k = Len(checks)
               /\ Len(sent) = k
               /\ pc = "done"
               /\ ret.returned
               /\ ret.resp = sent[k].resp
               /\ calls[Len(calls)] = "check"
               /\ CountIn(calls, "check") = k
               /\ (\A m \in DOMAIN checks : ~checks[m].ok) => k = 1

C4_Witness ==
    /\ pc = "done" /\ RetryMax = 4 /\ CheckForRetry = "custom"
    /\ Len(checks) = 1
    /\ checks[1] = [ok |-> FALSE, err |-> Nil, panic |-> FALSE]
    /\ sent[1].resp = Response(500)
    /\ ret = Return(Response(500), Nil)

\* C5: after CheckForRetry returns (false, e), Do returns the error e if e
\* is non-nil, even when the transport call of that attempt failed with
\* another error, and that attempt's transport error (or nil) if e is nil.
C5_PolicyErrorWins ==
    \A k \in DOMAIN checks :
        ~checks[k].ok
            => /\ ret.returned
               /\ ret.err = IF checks[k].err # Nil
                            THEN checks[k].err
                            ELSE sent[k].err

C5_Witness ==
    /\ pc = "done" /\ CheckForRetry = "custom"
    /\ Len(checks) = 2
    /\ checks[2] = [ok |-> FALSE, err |-> RetryErr, panic |-> FALSE]
    /\ sent[2].err = TransportErr
    /\ ret.err = RetryErr

\* C6: a context, once cancelled, stays cancelled; and with the default
\* policy, when the context is cancelled by the time the first transport
\* call has returned, the first CheckForRetry ends the Do call with the
\* context's error: one transport call, one CheckForRetry call, no Backoff
\* call and no sleep.
C6_CancelledBeforeFirstCall ==
    [][/\ ctx # "live" => ctx' = ctx
       /\ (/\ pc = "check" /\ Len(checks) = 0
           /\ CheckForRetry = "default" /\ ctx # "live"
           /\ pc' # pc)
             => /\ pc' = "done"
                /\ ret'.returned
                /\ ret'.err = CtxErr(ctx)
                /\ ret'.err \in {Canceled, DeadlineExceeded}
                /\ CountIn(calls', "transport") = 1
                /\ CountIn(calls', "check") = 1
                /\ CountIn(calls', "backoff") = 0
                /\ CountIn(calls', "sleep") = 0
                /\ Len(sent') = 1]_vars

C6_Witness ==
    /\ pc = "done" /\ CheckForRetry = "default" /\ RetryMax = 3
    /\ ctx = "canceled"
    /\ Len(sent) = 1 /\ Len(checks) = 1
    /\ sent[1].err = TransportErr
    /\ ret = Return(NoResp, Canceled)

\* C7: with DefaultScheduler and FirstTarget = 0 the k-th attempt
\* (k = 0, 1, ...) selects element k mod n of the n targets and is sent to
\* its URL; for A B C and five attempts: A, B, C, A, B.
C7_RoundRobin ==
    \A k \in DOMAIN sent :
        LET t == urls[((k - 1) % Len(urls)) + 1]
        IN  sent[k].dest = t /\ sent[k].url = parseURL(t)

C7_Witness ==
    /\ urls = <<"http://A", "http://B", "http://C">>
    /\ Len(sent) = 5
    /\ [k \in 1 .. 5 |-> sent[k].dest]
          = <<"http://A", "http://B", "http://C", "http://A", "http://B">>

\* the targets of the request, and those attempted so far
TargetSet == {urls[k] : k \in DOMAIN urls}
Attempted == {sent[k].dest : k \in DOMAIN sent}

\* target g answers with a response the policy does not retry, every other
\* target fails with a transport error
OnlyTargetUp(g) ==
    \A k \in DOMAIN sent :
        IF sent[k].dest = g
        THEN sent[k].err = Nil
                /\ ~DefaultRetryPolicy(Nil, sent[k].resp, Nil).ok
        ELSE sent[k].err = TransportErr

\* C8: with DefaultScheduler, n targets and RetryMax >= n-1, Do gives up
\* only after every target was attempted; so (default policy, context live)
\* if one target answers with a non-retryable response and all others fail
\* with transport errors, Do returns that target's response and no error.
C8_EveryTargetTried ==
    (pc = "done" /\ ~BodyFailed /\ RetryMax >= Len(urls) - 1)
        => /\ ret.err.kind = "giving up" => Attempted = TargetSet
           /\ \A g \in TargetSet :
                (CheckForRetry = "default" /\ ctx = "live" /\ OnlyTargetUp(g))
                    => /\ Len(sent) > 0
                       /\ sent[Len(sent)].dest = g
                       /\ ret = Return(sent[Len(sent)].resp, Nil)

C8_Witness ==
    /\ pc = "done" /\ CheckForRetry = "default" /\ RetryMax = 2
    /\ urls = <<"http://A", "http://B", "http://C">>
    /\ Len(sent) = 3
    /\ sent[1].err = TransportErr
    /\ sent[2].err = TransportErr
    /\ sent[3].dest = "http://C"
    /\ ret = Return(Response(200), Nil)

C10_RetryExactly5xx ==
    (pIn.applied /\ pIn.ctx = "live" /\ pIn.err = Nil /\ pIn.r # NoResp)
        => /\ pOut.err = Nil
           /\ pOut.ok <=> \/ pIn.r.StatusCode = 0
                          \/ /\ pIn.r.StatusCode \in 500 .. 599
                             /\ pIn.r.StatusCode # 501

\* the product min * 2^a lies in the Duration range
ProductFits(min, a) == min = 0 \/ (a < DurBits /\ min * Pow2(a) <= DurMax)

\* C11: DefaultBackoff(min, max, i) is min * 2^i when that product fits the
\* Duration range and is <= max, and max otherwise (also when the product
\* overflows); min = 1, max = 300 gives 1, 2, 4, 8 for i = 0..3 and 300 for
\* i = 63 and i = 128.
C11_ExponentialClamp ==
    (pIn.applied /\ pIn.fn = "DefaultBackoff")
        => pOut.wait =
              IF /\ ProductFits(pIn.min, pIn.attempt)
                 /\ pIn.min * Pow2(pIn.attempt) <= pIn.max
              THEN pIn.min * Pow2(pIn.attempt)
              ELSE pIn.max

\* C12: for fixed 0 < min <= max, DefaultBackoff(min, max, i) never exceeds
\* max and is not below DefaultBackoff(min, max, i - 1), also where
\* min * 2^i leaves the Duration range.
C12_BackoffMonotone ==
    (pIn.applied /\ pIn.fn = "DefaultBackoff"
        /\ 0 < pIn.min /\ pIn.min <= pIn.max)
        => /\ pOut.wait <= pIn.max
           /\ pOut.hasPrev => pOut.prev <= pOut.wait

\* the first attempt whose product 2^attempt no longer fits, after the last
\* one that fits
C12_Witness ==
    /\ pIn.applied /\ pIn.fn = "DefaultBackoff"
    /\ pIn.min = 1 /\ pIn.max = DurMax
    /\ pIn.attempt = DurBits - 1
    /\ pOut = [wait |-> DurMax, hasPrev |-> TRUE, prev |-> Pow2(DurBits - 2)]

\* C13: LinearJitterBackoff(min, max, i) is min * (i+1) when max <= min, and
\* v * (i+1) for some v with min <= v < max when max > min, so it lies
\* between min * (i+1) and max * (i+1).
C13_LinearJitter ==
    (pIn.applied /\ pIn.fn = "LinearJitterBackoff")
        => LET n == pIn.attempt + 1
           IN  IF pIn.max <= pIn.min
               THEN pOut.wait = pIn.min * n
               ELSE /\ \E v \in pIn.min .. (pIn.max - 1) : pOut.wait = v * n
                    /\ pIn.min * n <= pOut.wait
                    /\ pOut.wait <= pIn.max * n

\* C14: for a non-empty list of length n and a cursor c >= 0,
\* DefaultScheduler returns (list[c'], c'+1) with c' = c if c < n and c' = 0
\* otherwise: the target is a member of the list and the cursor is in 1..n.
C14_SchedulerResult ==
    pIn.applied =>
        LET n  == Len(pIn.servers)
            cc == IF pIn.j < n THEN pIn.j ELSE 0
        IN  /\ pOut.server = pIn.servers[cc + 1]
            /\ pOut.j = cc + 1
            /\ pOut.server \in {pIn.servers[k] : k \in 1 .. n}
            /\ pOut.j \in 1 .. n

\* the cursor one past the end of a two-element list
C14_Witness ==
    /\ pIn.applied
    /\ pIn.servers = <<"http://A", "http://B">>
    /\ pIn.j = 2
    /\ pOut = [server |-> "http://A", j |-> 1, panic |-> FALSE]

\* the errors of a body that cannot be materialised
BodyErrors == {BodyErr, ReadErr, TypeErr}

\* every space-separated element of target string durl is a valid URL
AllValid(durl) == \A k \in DOMAIN Split(durl) : urlParse(Split(durl)[k]) = Nil

\* C15: NewRequest (given a valid method and a body that can be
\* materialised) succeeds when every space-separated element of the target
\* string is a valid URL, and returns an error and no Request when any
\* element, the first or a later one, is not.
C15_NewRequestValidates ==
    (pIn.applied /\ pIn.fn = "NewRequest")
        => /\ (AllValid(pIn.durl) /\ validMethod(pIn.method)
                 /\ pOut.err \notin BodyErrors)
              => /\ pOut.err = Nil
                 /\ ~pOut.req.isNil
                 /\ pOut.req.urls = Split(pIn.durl)
           /\ (AllValid(pIn.durl) /\ validMethod(pIn.method)
                 /\ pIn.rawBody.kind \in {"nil", "[]byte"})
              => pOut.err = Nil
           /\ ~AllValid(pIn.durl)
              => pOut.err # Nil /\ pOut.req = NoRequest

\* the first element is valid, the second is not
C15_Witness ==
    /\ pIn.applied /\ pIn.fn = "NewRequest"
    /\ pIn.method = "GET" /\ pIn.rawBody = NoBody
    /\ pIn.durl = <<"a", " ", ":", "a">>
    /\ pOut = [req |-> NoRequest, err |-> SchemeErr]

\* C16: a Request that NewRequest or FromRequest returns without error has
\* a Target List whose elements all parse as URLs, and either constructor
\* fails when an element of the target string does not parse.
C16_TargetsValid ==
    pIn.applied
        => /\ pOut.err = Nil
              => \A k \in DOMAIN pOut.req.urls :
                    urlParse(pOut.req.urls[k]) = Nil
           /\ ~AllValid(pIn.durl) => pOut.err # Nil

\* C17: for a []byte or *bytes.Buffer body (which nothing but the Do call
\* touches) the bytes handed to the transport are the body's bytes on every
\* attempt, whatever the number of retries and the target selected.
C17_IdenticalReplay ==
    body.kind \in SliceKinds
        => \A k \in DOMAIN sent : sent[k].body = body.data

\* three attempts over two targets, the second one having consumed the body
C17_Witness ==
    /\ body = BodyValue("*bytes.Buffer", <<1, 2>>, 0)
    /\ Len(urls) = 2
    /\ Len(sent) = 3
    /\ sent[1].err = TransportErr
    /\ sent[2].resp = Response(500)
    /\ sent[3].dest = "http://A"
    /\ sent[3].body = <<1, 2>>

\* the stream obtained in this step, if one is, starts at the beginning and
\* yields the whole content
NewStreamRewound ==
    Len(streams') = Len(streams) + 1
        => Remaining(streams'[Len(streams')], body') = body'.data

\* the streams obtained before whose content this step changes
Changed ==
    {k \in DOMAIN streams :
        Remaining(streams'[k], body') # Remaining(streams[k], body)}

\* reading a stream changes no other stream, obtaining one changes none
Independent ==
    /\ Cardinality(Changed) <= 1
    /\ Len(streams') = Len(streams) + 1 => Changed = {}

\* C18 as stated: for every class of body, the streams the Body Producer
\* yields are independent of one another, each positioned at the start and
\* each yielding the same content.
C18_IndependentStreams ==
    [][NewStreamRewound /\ Independent]_vars

\* C18, amended: that holds for the classes whose bytes the Body Producer
\* holds ([]byte, *bytes.Buffer, *bytes.Reader, generic reader); for a
\* seekable stream every invocation yields the caller's one stream, sought
\* back to the start, so each stream starts rewound with the whole content
\* but they are not independent; for a factory function the streams are
\* whatever the function returns.
C18_IndependentCopies ==
    [][/\ pIn.rawBody.kind \in SliceKinds \cup {"*bytes.Reader", "io.Reader"}
          => NewStreamRewound /\ Independent
       /\ pIn.rawBody.kind = "io.ReadSeeker"
          => /\ NewStreamRewound
             /\ Len(streams') = Len(streams) + 1
                => streams'[Len(streams')] = SharedStream]_vars

\* two streams of a *bytes.Reader body: the first read to its end, the
\* second still whole
C18_Witness ==
    /\ pIn.rawBody = BodyValue("*bytes.Reader", <<1, 2>>, 0)
    /\ Len(streams) = 2
    /\ Remaining(streams[1], body) = <<>>
    /\ Remaining(streams[2], body) = <<1, 2>>

\* C19 as stated: for a *bytes.Buffer body every stream of the Body Producer
\* yields the bytes the buffer held when the body was materialised, whatever
\* was written to, read from or reset on the buffer since.
C19_CapturedByValue ==
    [][(pIn.rawBody.kind = "*bytes.Buffer"
          /\ Len(streams') = Len(streams) + 1)
        => Remaining(streams'[Len(streams')], body') = pIn.rawBody.data]_vars

\* C19, amended: every stream yields the bytes the buffer holds when the
\* Body Producer is invoked; these are the bytes of materialisation time as
\* long as the buffer still holds them.
C19_ReadAtInvocation ==
    [][(pIn.rawBody.kind = "*bytes.Buffer"
          /\ Len(streams') = Len(streams) + 1)
        => /\ Remaining(streams'[Len(streams')], body') = body.data
           /\ body.data = pIn.rawBody.data
              => Remaining(streams'[Len(streams')], body')
                    = pIn.rawBody.data]_vars

\* a byte was written to the buffer after the body was materialised, and the
\* stream obtained afterwards yields it
C19_Witness ==
    /\ pIn.rawBody = BodyValue("*bytes.Buffer", <<1>>, 0)
    /\ body.data = <<1, 2>>
    /\ Len(streams) = 1
    /\ Remaining(streams[1], body) = <<1, 2>>

\* C20: a failure of the Body Producer (after which Do closes the idle
\* connections) is the last thing the Do call does, on the first attempt or
\* a later one: it follows the Body Producer call at once, with no
\* Scheduler, transport or CheckForRetry call on that attempt and no further
\* attempt, and Do has returned a nil response and that error.
C20_BodyErrorAborts ==
    \A k \in DOMAIN calls :
        calls[k] = "close idle"
            => /\ k = Len(calls)
               /\ k > 1 /\ calls[k - 1] = "body"
               /\ pc = "done"
               /\ ret = Return(NoResp, BodyErr)
               /\ CountIn(calls, "body") = Len(sent) + 1
               /\ CountIn(calls, "scheduler") = Len(sent)
               /\ Len(checks) = Len(sent)

\* the Body Producer fails on the third attempt
C20_Witness ==
    /\ pc = "done" /\ RetryMax = 4
    /\ Len(sent) = 2
    /\ CountIn(calls, "body") = 3
    /\ calls[Len(calls)] = "close idle"
    /\ ret = Return(NoResp, BodyErr)

\* C21: NewRequest returns an error and no Request when the body is of an
\* unsupported type, and when the first invocation of a reader factory
\* returns an error, also when it returned a reader with it; the constructor
\* makes no Scheduler, transport or CheckForRetry call.
C21_ConstructionErrors ==
    (pIn.applied /\ pIn.fn = "NewRequest")
        => /\ pIn.rawBody.kind = "other"
              => pOut = [req |-> NoRequest, err |-> TypeErr]
           /\ pIn.rawBody.kind = "func failing"
              => pOut = [req |-> NoRequest, err |-> BodyErr]
           /\ pOut.err \in BodyErrors => pOut.req = NoRequest
           /\ sent = <<>> /\ checks = <<>> /\ calls = <<>>

\* a factory that returns a reader and an error, with a valid target string
C21_Witness ==
    /\ pIn.applied /\ pIn.fn = "NewRequest"
    /\ pIn.method = "POST" /\ pIn.durl = <<"a">>
    /\ pIn.rawBody = BodyValue("func failing", <<1>>, 0)
    /\ pOut = [req |-> NoRequest, err |-> BodyErr]

\* C23: after NewRequest succeeds with a body, the request's content length
\* is the number of bytes every stream of the Body Producer yields; and
\* FromRequest leaves the content length of the wrapped request as it was.
C23_ContentLength ==
    pIn.applied
        => /\ (pIn.fn = "NewRequest" /\ pOut.err = Nil
                 /\ pIn.rawBody.kind # "nil")
              => \A o \in ReaderFunc(pOut.req.body) :
                    o.err = Nil
                        => Len(Remaining(o.stream, o.body))
                              = pOut.req.ContentLength
           /\ (pIn.fn = "FromRequest" /\ pOut.err = Nil)
              => pOut.req.ContentLength = pIn.cl

\* C28: in a Do call that has made a >= 1 attempts without a failure of the
\* Body Producer, Backoff has been called and Do has slept once between two
\* consecutive attempts: at most a times while the call runs, exactly a-1
\* times when it has ended, with the attempt numbers 0, 1, ..., in that order
\* and the client's RetryWaitMin and RetryWaitMax as bounds.
C28_BackoffBetweenAttempts ==
    /\ \A k \in DOMAIN waits :
          /\ waits[k].attempt = k - 1
          /\ waits[k].min = RetryWaitMin
          /\ waits[k].max = RetryWaitMax
          /\ waits[k].wait \in DefaultBackoff(RetryWaitMin, RetryWaitMax, k - 1)
    /\ Len(waits) = CountIn(calls, "backoff")
    /\ CountIn(calls, "sleep") <= Len(waits)
    /\ Len(waits) <= Len(sent)
    /\ (pc = "done" /\ ~BodyFailed /\ Len(sent) >= 1)
          => /\ Len(waits) = Len(sent) - 1
             /\ CountIn(calls, "sleep") = Len(sent) - 1

\* a call that ended by a stop decision after three attempts
C28_Witness ==
    /\ pc = "done" /\ Len(sent) = 3 /\ RetryMax = 4
    /\ ret.err = Nil
    /\ Len(waits) = 2 /\ waits[2].attempt = 1 /\ waits[2].wait = 2

\* the hooks that may directly follow hook a in a Do call
Follows(a) ==
    CASE a = "body"       -> {"scheduler", "close idle"}
      [] a = "close idle" -> {}
      [] a = "scheduler"  -> {"transport"}
      [] a = "transport"  -> {"log ERROR", "check"}
      [] a = "log ERROR"  -> {"check"}
      [] a = "check"      -> {"drain", "backoff"}
      [] a = "drain"      -> {"backoff"}
      [] a = "backoff"    -> {"log DEBUG"}
      [] a = "log DEBUG"  -> {"sleep"}
      [] a = "sleep"      -> IF hasBody THEN {"body"} ELSE {"scheduler"}

\* the number of CheckForRetry evaluations among the first k hook calls
ChecksUpTo(k) == CountIn(SubSeq(calls, 1, k), "check")

\* C29: within every attempt the hooks run in the order Body Producer (if
\* present), Scheduler, transport, CheckForRetry, each once; Backoff, the
\* DEBUG log and the sleep follow, in that order, only a retry decision made
\* with budget remaining; every transport call is followed by one
\* CheckForRetry evaluation before anything of the next attempt.
C29_HookOrder ==
    /\ calls # <<>>
          => calls[1] = (IF hasBody THEN "body" ELSE "scheduler")
    /\ \A k \in 1 .. (Len(calls) - 1) : calls[k + 1] \in Follows(calls[k])
    /\ \A k \in DOMAIN calls :
          calls[k] = "backoff"
              => /\ checks[ChecksUpTo(k)].ok
                 /\ remain(RetryMax, ChecksUpTo(k) - 1) > 0
    /\ CountIn(calls, "transport") = Len(sent)
    /\ CountIn(calls, "check") = Len(checks)
    /\ Len(sent) - Len(checks) = (IF pc = "check" THEN 1 ELSE 0)

\* a call with a body whose first attempt failed in the transport and was
\* retried, and whose second attempt was answered and stopped
C29_Witness ==
    /\ pc = "done" /\ hasBody
    /\ calls = <<"body", "scheduler", "transport", "log ERROR", "check",
                 "backoff", "log DEBUG", "sleep",
                 "body", "scheduler", "transport", "check">>

\* C22: a verb method returns the construction error of NewRequest unchanged
\* with a nil response, having made no Scheduler, transport or CheckForRetry
\* call; otherwise Do runs on the constructed Request and what it returns is
\* what the verb method returns.
C22_VerbMethods ==
    (pIn.applied /\ pIn.fn \in Verbs)
        => /\ pOut.err # Nil
              => /\ pc = "done"
                 /\ ret = Return(NoResp, pOut.err)
                 /\ sent = <<>> /\ checks = <<>> /\ calls = <<>>
           /\ pOut.err = Nil
              => /\ method = pOut.req.Method
                 /\ urls = Texts(pOut.req.urls)
                 /\ hasBody = (pOut.req.body # NoBody)
                 /\ pc = "done"
                       => (ret.returned /\ (Len(sent) >= 1 \/ BodyFailed))
                 /\ \A k \in DOMAIN sent :
                       \E n \in DOMAIN urls : sent[k].dest = urls[n]

\* Post with a target string whose second element has no scheme before ":"
C22_Witness ==
    /\ pIn.applied /\ pIn.fn = "Post"
    /\ pIn.durl = <<"a", " ", ":">>
    /\ pIn.rawBody = BodyValue("io.ReadSeeker", <<1>>, 0)
    /\ pc = "done" /\ ret = Return(NoResp, SchemeErr)

\* C26: no step of a Do call changes the request's method, headers, target
\* list or Body Producer: across all attempts and targets they stay as they
\* were when Do was called; Do overwrites only the URL and the body stream.
C26_MethodAndHeadersFixed ==
    [][pc # "verb" => UNCHANGED <<method, header, urls, hasBody>>]_vars

\* Put with two targets: both were attempted, and the request still has the
\* method and the Content-Type it was built with
C26_Witness ==
    /\ pIn.applied /\ pIn.fn = "Put"
    /\ pc = "done" /\ Len(sent) = 2
    /\ sent[1].url # sent[2].url
    /\ reqBody # NoStream
    /\ method = "PUT" /\ header = ContentType("text/plain")

\* the k-th target of the round robin over list that starts at FirstTarget
RoundRobin(list, k) == list[((FirstTarget + k - 1) % Len(list)) + 1]

\* C24: when two Do calls run concurrently on one Client, each with its own
\* Request, each call attempts the targets it would attempt alone, the round
\* robin over its own Target List from FirstTarget, under every interleaving.
C24_ConcurrentCursors ==
    /\ \A k \in DOMAIN sent : sent[k].dest = RoundRobin(urls, k)
    /\ peer # NoPeer
          => \A k \in DOMAIN peer.sent :
                peer.sent[k] = RoundRobin(peer.urls, k)

\* both calls are under way, the first in its third attempt and the peer in
\* its second
C24_Witness ==
    /\ pc = "check" /\ Len(sent) = 3 /\ j = 3
    /\ peer.pc = "check" /\ Len(peer.sent) = 2 /\ peer.j = 2
    /\ earlier = <<>>

\* C25: no step of a Do call writes a field of the Client configuration,
\* whatever the configuration was, a nil HTTPClient included.
C25_ClientReadOnly ==
    [][UNCHANGED <<HTTPClient, RetryWaitMin, RetryWaitMax, RetryMax,
                   CheckForRetry>>]_vars

\* C27: in every Do call on a Client, also a later call with the same
\* Request, the first Scheduler invocation receives FirstTarget, however many
\* attempts the earlier calls made.
C27_CursorReset ==
    /\ (pc = "schedule" /\ CountIn(calls, "scheduler") = 0)
          => j = FirstTarget
    /\ Len(sent) >= 1 => sent[1].dest = RoundRobin(urls, 1)
    /\ (peer # NoPeer /\ peer.pc = "schedule" /\ peer.sent = <<>>)
          => peer.j = FirstTarget

\* the second call of a Request with three targets is about to invoke the
\* Scheduler for the first time; the call before made two attempts
C27_Witness ==
    /\ earlier = <<2>> /\ Len(urls) = 3
    /\ pc = "schedule" /\ calls = <<>>
    /\ j = FirstTarget /\ dest = urls[2]

\* C30: an attempt whose selected target does not parse as a URL is still
\* performed, with the URL the request held before the selection: the
\* request's URL is not nil, and from the second attempt on it is the URL of
\* the attempt before.
C30_StaleURL ==
    \A k \in DOMAIN sent :
        parseURL(sent[k].dest) = NilURL
            => /\ sent[k].url # NilURL
               /\ k > 1 => sent[k].url = sent[k - 1].url

\* the non-empty elements of a split target string, in order
Fields(durl) == SelectSeq(Split(durl), LAMBDA t : t # <<>>)

\* C35: the Target List of a constructed Request consists of exactly the
\* non-empty tokens of the target string, in order, and never contains an
\* empty element, also for strings with consecutive, leading or trailing
\* spaces.
C35_NoEmptyTargets ==
    (pIn.applied /\ pOut.err = Nil)
        => /\ \A k \in DOMAIN pOut.req.urls : pOut.req.urls[k] # <<>>
           /\ pOut.req.urls = Fields(pIn.durl)

\* C40: when Do returns the giving-up error, the attempt count stated in the
\* error is the number of transport calls the call made, and it is at least
\* 1, for every value of RetryMax, negative ones included.
C40_GivingUpCount ==
    (pc = "done" /\ ret.err = GivingUp(method, reqURL, RetryMax))
        => /\ ret.err.attempts = Len(sent)
           /\ Len(sent) >= 1

\* C32: with DefaultRetryPolicy, a CheckForRetry evaluation made when the
\* context is cancelled ends the Do call: Do returns the context error,
\* whatever the response or transport error of that attempt, and no attempt
\* is started after it.
C32_CancellationWins ==
    [][(pc = "check" /\ pc' # "check" /\ CheckForRetry = "default"
          /\ ctx # "live")
         => /\ pc' = "done"
            /\ ret' = Return(r, CtxErr(ctx))
            /\ checks' = Append(checks, [ok |-> FALSE, err |-> CtxErr(ctx),
                                         panic |-> FALSE])
            /\ sent' = sent]_vars

\* the third attempt failed in the transport after the context was
\* cancelled, with retries left: Do returned the context error
C32_Witness ==
    /\ pc = "done" /\ CheckForRetry = "default" /\ RetryMax = 4
    /\ Len(sent) = 3 /\ sent[3].err = TransportErr
    /\ sent[2].resp = Response(500)
    /\ ctx = "canceled"
    /\ ret = Return(NoResp, Canceled)

\* C33: when the context is cancelled while Do is in the sleep between two
\* attempts, the sleep ends with the return of the context error: Do does
\* not go on to another attempt.
C33_SleepHonorsCancel ==
    [][(pc = "sleep" /\ ctx # "live")
         => /\ pc' = "done"
            /\ ret'.err = CtxErr(ctx)
            /\ sent' = sent]_vars

\* the statuses DefaultRetryPolicy does not retry
NonRetryable(resp) ==
    /\ resp # NoResp
    /\ resp.StatusCode # 0
    /\ resp.StatusCode < 500 \/ resp.StatusCode = 501

\* C38: with DefaultRetryPolicy the error Do returns is nil, together with a
\* response that is not retried, or the context's error, or the error of the
\* Body Producer, or the giving-up error; a transport error is never
\* returned, and the giving-up error carries none.
C38_ReturnedErrors ==
    (pc = "done" /\ CheckForRetry = "default")
        => /\ ret.err \in {Nil, Canceled, DeadlineExceeded, BodyErr,
                           GivingUp(method, reqURL, RetryMax)}
           /\ ret.err = Nil => NonRetryable(ret.resp)
           /\ ret.err # TransportErr
           /\ ret.err = GivingUp(method, reqURL, RetryMax)
                 => DOMAIN ret.err = {"kind", "method", "url", "attempts"}

\* every attempt failed in the transport, and Do gave up
C38_Witness ==
    /\ pc = "done" /\ CheckForRetry = "default" /\ RetryMax = 1
    /\ Len(sent) = 2
    /\ \A k \in DOMAIN sent : sent[k].err = TransportErr
    /\ ret = Return(NoResp, GivingUp(method, reqURL, RetryMax))

\* C34: the Logger gets one "ERROR" message for each transport call that
\* failed, right after that call, and one "DEBUG" message for each retry that
\* is followed by another attempt; the k-th DEBUG message announces
\* RetryMax - (k-1) attempts left: RetryMax first, one less each time, never
\* less than 1.
C34_LoggerMessages ==
    /\ CountIn(calls, "log ERROR")
          = Cardinality({k \in DOMAIN sent : sent[k].err # Nil})
    /\ \A k \in DOMAIN calls :
          calls[k] = "log ERROR" => (k > 1 /\ calls[k - 1] = "transport")
    /\ CountIn(calls, "log DEBUG") = Len(waits)
    /\ Len(waits) = CountIn(calls, "sleep") + (IF pc = "sleep" THEN 1 ELSE 0)
    /\ \A k \in DOMAIN waits :
          /\ waits[k].left = RetryMax - (k - 1)
          /\ waits[k].left >= 1

\* three retries announced, after two failed transport calls and a 500
C34_Witness ==
    /\ RetryMax = 3 /\ pc = "done" /\ Len(sent) = 4
    /\ sent[1].err = TransportErr /\ sent[2].err = TransportErr
    /\ sent[3].resp = Response(500)
    /\ Len(waits) = 3
    /\ waits[1].left = 3 /\ waits[2].left = 2 /\ waits[3].left = 1
    /\ CountIn(calls, "log ERROR") = 2

\* C31: Do drains a response body, reading at most respReadLimit bytes, and
\* closes it exactly after a CheckForRetry evaluation that answered retry for
\* an attempt whose transport call gave a response; a response returned on a
\* stop decision is not drained; a failure of the drain is logged and leaves
\* the result of Do as it would be.
C31_DrainOnRetry ==
    /\ \A k \in DOMAIN calls :
          /\ calls[k] = "drain"
                => /\ k > 1 /\ calls[k - 1] = "check"
                   /\ checks[ChecksUpTo(k)].ok
                   /\ sent[ChecksUpTo(k)].resp # NoResp
                   /\ sent[ChecksUpTo(k)].err = Nil
          /\ (calls[k] = "check" /\ checks[ChecksUpTo(k)].ok
                /\ sent[ChecksUpTo(k)].resp # NoResp)
                => (k < Len(calls) /\ calls[k + 1] = "drain")
          /\ calls[k] = "log drain ERROR" => (k > 1 /\ calls[k - 1] = "drain")
    /\ (pc = "done" /\ checks # <<>>)
          => IF Stops(checks[Len(checks)])
             THEN /\ calls[Len(calls)] = "check"
                  /\ ret = Return(r, StopErr(checks[Len(checks)].err, err))
             ELSE ret = Return(NoResp, GivingUp(method, reqURL, RetryMax))
    /\ \A n \in BodyLengths, f \in BOOLEAN :
          /\ drainBody(n, f).read <= respReadLimit
          /\ drainBody(n, f).read <= n
          /\ drainBody(n, f).read = n \/ drainBody(n, f).read = respReadLimit
          /\ drainBody(n, f).closed

\* the drain of the first response failed, the retry went on, and the
\* second response was returned without being drained
C31_Witness ==
    /\ pc = "done" /\ HTTPClient = "faulty"
    /\ calls = <<"scheduler", "transport", "check", "drain",
                 "log drain ERROR", "backoff", "log DEBUG", "sleep",
                 "scheduler", "transport", "check">>
    /\ sent[1].resp = Response(500)
    /\ ret = Return(Response(200), Nil)

\* C39: for every value of FirstTarget, negative ones and ones at or beyond
\* the number of targets included, and every Target List of a constructor,
\* the list is not empty and the Scheduler's index into it is within bounds.
C39_IndexInBounds ==
    pIn.applied
        => /\ Len(pIn.servers) > 0
           /\ ~pOut.panic
           /\ pOut.server \in {pIn.servers[k] : k \in DOMAIN pIn.servers}

\* C36: a reader factory is invoked once by NewRequest and once at the start
\* of each attempt of Do: the invocations number 1 plus the attempts begun,
\* and 1 + a when Do has made a attempts and returned without a failure of
\* the Body Producer; a generic reader is read at construction only.
C36_FactoryInvocations ==
    (pIn.applied /\ pIn.fn = "NewRequest")
        => /\ pIn.rawBody.kind \in {"func", "func failing"}
              => /\ uses = 1 + CountIn(calls, "body")
                 /\ Len(sent) <= uses - 1
                 /\ uses - 1 <= Len(sent) + 1
                 /\ (pc = "done" /\ ~BodyFailed /\ pOut.err = Nil)
                       => uses = 1 + Len(sent)
                 /\ pOut.err # Nil => uses = 1
           /\ pIn.rawBody.kind = "io.Reader"
              => /\ uses = 1
                 /\ pOut.err = Nil => CountIn(calls, "body") >= Len(sent)

\* a factory body, two attempts, the second one answered: three invocations
C36_Witness ==
    /\ pIn.applied /\ pIn.fn = "NewRequest"
    /\ pIn.rawBody = BodyValue("func", <<1, 2>>, 0)
    /\ pc = "done" /\ Len(sent) = 2
    /\ sent[2].resp = Response(200) /\ sent[2].body = <<1, 2>>
    /\ uses = 3

\* the last CheckForRetry evaluation answered stop
StopDecision == checks # <<>> /\ ~checks[Len(checks)].ok

\* the last thing Do did was to close the idle connections after the Body
\* Producer failed
ProducerFailure == calls # <<>> /\ calls[Len(calls)] = "close idle"

\* the loop was left with no stop and no failure of the Body Producer
Exhaustion == ~StopDecision /\ ~ProducerFailure /\ i >= RetryMax

\* the terminal outcomes that hold of the call that has returned: 1 for
\* Succeeded/FatalError by a stop decision, 2 for FatalError by a failure of
\* the Body Producer, 3 for GaveUp
TerminalOutcomes ==
    {k \in 1 .. 3 :
        \/ k = 1 /\ StopDecision
                 /\ ret = Return(r, StopErr(checks[Len(checks)].err, err))
        \/ k = 2 /\ ProducerFailure /\ ret.err = BodyErr
        \/ k = 3 /\ Exhaustion
                 /\ ret = Return(NoResp, GivingUp(method, reqURL, RetryMax))}

\* C37: a Do call that has been entered returns, given that each transport
\* call, hook and sleep returns; it returns with exactly one terminal
\* outcome (a stop decision, a failure of the Body Producer, or exhaustion);
\* and once it has returned, no Scheduler, transport, CheckForRetry, Backoff
\* or Logger call is made and its result does not change.
C37_DoTerminates ==
    /\ [](pc # "idle" => <>(pc = "done"))
    /\ [](pc = "done" => (ret.returned /\ Cardinality(TerminalOutcomes) = 1))
    /\ [][pc = "done" => UNCHANGED <<pc, sent, checks, calls, waits, ret>>]_vars

\* Do gave up after three attempts that were all retried
C37_Witness ==
    /\ pc = "done" /\ RetryMax = 2
    /\ Len(sent) = 3 /\ Len(checks) = 3
    /\ TerminalOutcomes = {3}

====
